---- MODULE Spec2Model ----
(***************************************************************************)
(* A model of hikari's custom collections (hikari/internal/collections.py): *)
(* FreezableDict, LimitedCapacityCacheMap and SnowflakeSet, and of the      *)
(* entity factory (hikari/impl/entity_factory.py), which turns JSON         *)
(* payloads into models and back.                                           *)
(*                                                                          *)
(* A Python dict is a sequence of entries [k, v] in insertion order; dicts  *)
(* live in a heap and objects hold references to them, so that two objects  *)
(* sharing one dict is a state the model can express.                       *)
(***************************************************************************)
EXTENDS Integers, Sequences, FiniteSets, TLC

\* Bounds of the single-map specification SpecCache.
MaxKey == 3
MaxVal == 2
MaxLimit == 2

\* Bounds of the SnowflakeSet specifications. The array's items are unsigned
\* 64-bit integers; the model scales their range, 0 .. 2^64 - 1, down to
\* 0 .. MaxSf and keeps both edges: -1 and MaxSf + 1 are the integers the
\* array refuses.
MaxSf == 3
MaxBatch == 2

\* The most add calls of the two-thread specification SpecRace.
MaxCalls == 3

\* Bounds of the two-object specification SpecCopy.
CopyMaxKey == 2
CopyMaxLimit == 1

\* Bounds of the entity factory specification SpecFactory: the largest
\* max_uses and the largest small max_age (in seconds) of an invite.
MaxUses == 2
MaxAge == 2

\* The largest channel type of a payload; the channel type mappings stop
\* at 6.
MaxChannelType == 7

\* The largest int of a change's new_value and old_value, and how many
\* action types beyond the first that no member has.
MaxChangeValue == 1
MaxUnknownActionType == 1

\* The most fields of an embed to serialize.
MaxFields == 2

\* The most items of a mapping given to get_index_or_slice, and the
\* largest of their values.
MaxItems == 2

VARIABLES
    heap,      \* reference -> dict contents
    src,       \* the caller's source dict (a reference), or NoRef for None
    m,         \* the mapping under test
    other,     \* what m.copy() or m.freeze() last returned, if anything
    events,    \* what the last operation's garbage collection did, in order
    last,      \* the last operation: op, target, key, value, raised
    ids,       \* SnowflakeSet._ids, the backing array
    mset,      \* the set of integers the same operations give
    sLast,     \* the last SnowflakeSet operation: op, value, found, raised,
               \* and the collection it was given (add_all, the constructor)
    race,      \* the add calls in progress on the SnowflakeSet, one per
               \* thread: where each is, its value, index and branch
    fcall,     \* the entity factory's call in progress: op, its arguments
               \* and what it returned or raised
    builder    \* the guild builder: the roles it holds and its last add_role

mapVars == <<heap, src, m, other, events, last>>

setVars == <<ids, mset, sLast, race>>

facVars == <<fcall, builder>>

vars == <<heap, src, m, other, events, last, ids, mset, sLast, race, fcall, builder>>

----------------------------------------------------------------------------
(* Python's dict, by value.                                                 *)

Entry(k, v) == [k |-> k, v |-> v]

DictKeys(d) == [i \in 1..Len(d) |-> d[i].k]

DictValues(d) == [i \in 1..Len(d) |-> d[i].v]

KeySet(d) == {d[i].k : i \in 1..Len(d)}

HasKey(d, k) == k \in KeySet(d)

IndexOf(d, k) == CHOOSE i \in 1..Len(d) : d[i].k = k

DictGet(d, k) == d[IndexOf(d, k)].v

\* d[k] = v: an existing key keeps its place, a new key goes last.
DictSetItem(d, k, v) ==
    IF HasKey(d, k)
    THEN [d EXCEPT ![IndexOf(d, k)] = Entry(k, v)]
    ELSE Append(d, Entry(k, v))

\* del d[k], for a key that is present.
DictDelItem(d, k) ==
    LET i == IndexOf(d, k)
    IN  SubSeq(d, 1, i - 1) \o SubSeq(d, i + 1, Len(d))

\* Every dict over the keys K and values V.
DictsOfLen(K, V, n) ==
    {d \in [1..n -> [k : K, v : V]] :
        \A i, j \in 1..n : i # j => d[i].k # d[j].k}

AllDicts(K, V) == UNION {DictsOfLen(K, V, n) : n \in 0..Cardinality(K)}

----------------------------------------------------------------------------
(* The heap.                                                                *)

Refs == {1, 2, 3, 4}

NoRef == 0

NoObj == [cls |-> "none", data |-> NoRef, limit |-> 0, on_expire |-> FALSE]

EmptyHeap == [r \in Refs |-> <<>>]

\* The smallest reference no object in `used` holds.
Fresh(used) == CHOOSE r \in Refs \ used : \A q \in Refs \ used : r <= q

\* Dicts that neither an object nor the caller refers to any more are gone.
Collect(h, objs) ==
    [r \in Refs |-> IF r = src \/ \E o \in objs : o.data = r THEN h[r] ELSE <<>>]

NoEvents == <<>>

Popped(k, v) == [type |-> "pop", key |-> k, value |-> v, present |-> <<>>]

Expired(v, d) == [type |-> "expire", key |-> 0, value |-> v, present |-> DictKeys(d)]

----------------------------------------------------------------------------
(* LimitedCapacityCacheMap.                                                 *)

RECURSIVE GarbageCollect_slack(_, _)
\* A sweep that stops one entry early.
GarbageCollect_slack(h, self) ==
    IF Len(h[self.data]) > self.limit + 1
    THEN LET d == h[self.data]
             value == Head(d).v
             h2 == [h EXCEPT ![self.data] = Tail(d)]
             ev == <<Popped(Head(d).k, value)>>
                   \o (IF self.on_expire THEN <<Expired(value, h2[self.data])>> ELSE <<>>)
             rest == GarbageCollect_slack(h2, self)
         IN  [heap |-> rest.heap, events |-> ev \o rest.events]
    ELSE [heap |-> h, events |-> NoEvents]

RECURSIVE GarbageCollect_newest(_, _)
\* A sweep that pops the newest entry (dict.popitem()) instead of the oldest.
GarbageCollect_newest(h, self) ==
    IF Len(h[self.data]) > self.limit
    THEN LET d == h[self.data]
             value == d[Len(d)].v
             h2 == [h EXCEPT ![self.data] = SubSeq(d, 1, Len(d) - 1)]
             ev == <<Popped(d[Len(d)].k, value)>>
                   \o (IF self.on_expire THEN <<Expired(value, h2[self.data])>> ELSE <<>>)
             rest == GarbageCollect_newest(h2, self)
         IN  [heap |-> rest.heap, events |-> ev \o rest.events]
    ELSE [heap |-> h, events |-> NoEvents]

RECURSIVE GarbageCollect_callback_first(_, _)
\* A sweep that calls on_expire while the entry is still in the map.
GarbageCollect_callback_first(h, self) ==
    IF Len(h[self.data]) > self.limit
    THEN LET d == h[self.data]
             value == Head(d).v
             h2 == [h EXCEPT ![self.data] = Tail(d)]
             ev == (IF self.on_expire THEN <<Expired(value, h[self.data])>> ELSE <<>>)
                   \o <<Popped(Head(d).k, value)>>
             rest == GarbageCollect_callback_first(h2, self)
         IN  [heap |-> rest.heap, events |-> ev \o rest.events]
    ELSE [heap |-> h, events |-> NoEvents]

RECURSIVE LimitedCapacityCacheMap_garbage_collect(_, _)
\* Pop the first entry and report it, while there are more than limit.
LimitedCapacityCacheMap_garbage_collect(h, self) ==
    IF Len(h[self.data]) > self.limit
    THEN LET d == h[self.data]
             value == Head(d).v
             h2 == [h EXCEPT ![self.data] = Tail(d)]
             ev == <<Popped(Head(d).k, value)>>
                   \o (IF self.on_expire THEN <<Expired(value, h2[self.data])>> ELSE <<>>)
             rest == LimitedCapacityCacheMap_garbage_collect(h2, self)
         IN  [heap |-> rest.heap, events |-> ev \o rest.events]
    ELSE [heap |-> h, events |-> NoEvents]

\* LimitedCapacityCacheMap(source, limit=, on_expire=): `source or {}` keeps
\* the caller's dict when it is not empty, and takes a new one otherwise.
LimitedCapacityCacheMap_init(h, source, limit, on_expire, fresh) ==
    LET data == IF source # NoRef /\ Len(h[source]) > 0 THEN source ELSE fresh
        h1 == IF data = fresh THEN [h EXCEPT ![fresh] = <<>>] ELSE h
        self == [cls |-> "lccm", data |-> data, limit |-> limit, on_expire |-> on_expire]
        gc == LimitedCapacityCacheMap_garbage_collect(h1, self)
    IN  [heap |-> gc.heap, obj |-> self, events |-> gc.events]

LimitedCapacityCacheMap_clear(h, self) ==
    [heap |-> [h EXCEPT ![self.data] = <<>>], events |-> NoEvents]

\* A copy() that hands the constructor self._data itself.
LimitedCapacityCacheMap_copy_shared(h, self, fresh, fresh2) ==
    LimitedCapacityCacheMap_init(h, self.data, self.limit, self.on_expire, fresh2)

\* self._data.copy() is a new dict; the constructor then runs on it.
LimitedCapacityCacheMap_copy(h, self, fresh, fresh2) ==
    LET h1 == [h EXCEPT ![fresh] = h[self.data]]
    IN  LimitedCapacityCacheMap_init(h1, fresh, self.limit, self.on_expire, fresh2)

\* A freeze() that returns self._data itself.
LimitedCapacityCacheMap_freeze_shared(h, self, fresh) ==
    [heap |-> h,
     obj |-> [cls |-> "dict", data |-> self.data, limit |-> 0, on_expire |-> FALSE],
     events |-> NoEvents]

\* self._data.copy(): a new, plain dict.
LimitedCapacityCacheMap_freeze(h, self, fresh) ==
    [heap |-> [h EXCEPT ![fresh] = h[self.data]],
     obj |-> [cls |-> "dict", data |-> fresh, limit |-> 0, on_expire |-> FALSE],
     events |-> NoEvents]

\* A __delitem__ that hands the removed value to on_expire.
LimitedCapacityCacheMap_delitem_expiring(h, self, key) ==
    LET d == DictDelItem(h[self.data], key)
    IN  [heap |-> [h EXCEPT ![self.data] = d],
         events |-> IF self.on_expire
                    THEN <<Expired(DictGet(h[self.data], key), d)>>
                    ELSE NoEvents]

\* del self._data[key], for a key that is present.
LimitedCapacityCacheMap_delitem(h, self, key) ==
    [heap |-> [h EXCEPT ![self.data] = DictDelItem(h[self.data], key)],
     events |-> NoEvents]

\* self._data[key], for a key that is present.
LimitedCapacityCacheMap_getitem(h, self, key) ==
    [heap |-> h, events |-> NoEvents, value |-> DictGet(h[self.data], key)]

\* A __setitem__ that moves an updated key to the newest position.
LimitedCapacityCacheMap_setitem_promote(h, self, key, value) ==
    LET d == h[self.data]
        d1 == IF HasKey(d, key) THEN DictDelItem(d, key) ELSE d
    IN  LimitedCapacityCacheMap_garbage_collect(
            [h EXCEPT ![self.data] = Append(d1, Entry(key, value))], self)

LimitedCapacityCacheMap_setitem(h, self, key, value) ==
    LimitedCapacityCacheMap_garbage_collect(
        [h EXCEPT ![self.data] = DictSetItem(h[self.data], key, value)], self)

----------------------------------------------------------------------------
(* FreezableDict, and the plain dict freeze() returns.                      *)

FreezableDict_init(h, source, fresh) ==
    LET data == IF source # NoRef /\ Len(h[source]) > 0 THEN source ELSE fresh
        h1 == IF data = fresh THEN [h EXCEPT ![fresh] = <<>>] ELSE h
    IN  [heap |-> h1,
         obj |-> [cls |-> "fd", data |-> data, limit |-> 0, on_expire |-> FALSE],
         events |-> NoEvents]

FreezableDict_clear(h, self) ==
    [heap |-> [h EXCEPT ![self.data] = <<>>], events |-> NoEvents]

FreezableDict_copy(h, self, fresh, fresh2) ==
    FreezableDict_init([h EXCEPT ![fresh] = h[self.data]], fresh, fresh2)

FreezableDict_freeze(h, self, fresh) ==
    [heap |-> [h EXCEPT ![fresh] = h[self.data]],
     obj |-> [cls |-> "dict", data |-> fresh, limit |-> 0, on_expire |-> FALSE],
     events |-> NoEvents]

FreezableDict_delitem(h, self, key) ==
    [heap |-> [h EXCEPT ![self.data] = DictDelItem(h[self.data], key)],
     events |-> NoEvents]

FreezableDict_getitem(h, self, key) ==
    [heap |-> h, events |-> NoEvents, value |-> DictGet(h[self.data], key)]

FreezableDict_setitem(h, self, key, value) ==
    [heap |-> [h EXCEPT ![self.data] = DictSetItem(h[self.data], key, value)],
     events |-> NoEvents]

\* The dict freeze() hands out: a builtin dict, with no policy of its own.
dict_setitem(h, self, key, value) ==
    [heap |-> [h EXCEPT ![self.data] = DictSetItem(h[self.data], key, value)],
     events |-> NoEvents]

dict_delitem(h, self, key) ==
    [heap |-> [h EXCEPT ![self.data] = DictDelItem(h[self.data], key)],
     events |-> NoEvents]

dict_getitem(h, self, key) ==
    [heap |-> h, events |-> NoEvents, value |-> DictGet(h[self.data], key)]

dict_clear(h, self) ==
    [heap |-> [h EXCEPT ![self.data] = <<>>], events |-> NoEvents]

----------------------------------------------------------------------------
(* The operations, dispatched on the object's class.                        *)

Obj(t) == IF t = "m" THEN m ELSE other

Contents(o) == heap[o.data]

Op(op, t, k, v, raised) ==
    [op |-> op, target |-> t, key |-> k, value |-> v, raised |-> raised]

\* Python values as the entity factory meets them, each tagged with its
\* type: None, an int, a str that is not a number, the str that is the
\* decimal form of n, a bool, a list and a dict (a JSON object).
PyNone == [t |-> "NoneType"]

PyInt(n) == [t |-> "int", n |-> n]

PyStr(s) == [t |-> "str", s |-> s]

PyNumStr(n) == [t |-> "str", digits |-> n]

PyBool(b) == [t |-> "bool", b |-> b]

PyList(items) == [t |-> "list", items |-> items]

PyDict(items) == [t |-> "dict", items |-> items]

PyTuple(items) == [t |-> "tuple", items |-> items]

\* What a call comes to: the value it returns, or the exception it raises.
Ok(v) == [exc |-> "none", value |-> v]

Raise(e) == [exc |-> e, value |-> PyNone]

Failed(r) == r.exc # "none"

\* undefined.UNDEFINED, the default of an argument that was not passed.
UNDEFINED == [t |-> "UndefinedType"]

FactoryCall(op, payload, guild_id, result) ==
    [op |-> op, payload |-> payload, guild_id |-> guild_id, result |-> result]

\* What the builder's last add_role was given and what came of it.
RoleCall(name, options, result) ==
    [op |-> "add_role", name |-> name, options |-> options, result |-> result]

\* A guild builder as guild_builder(name) makes it: no role added yet.
NewBuilder ==
    [roles |-> <<>>,
     last |-> [op |-> "none", name |-> "", options |-> <<>>, result |-> PyNone]]

\* The entity factory is idle, and the guild builder is new.
NoCall ==
    /\ fcall = FactoryCall("none", PyNone, UNDEFINED, PyNone)
    /\ builder = NewBuilder

\* No SnowflakeSet is in play.
\* The threads that may call add at the same time.
Threads == {1, 2}

Idle == [pc |-> "idle", value |-> 0, index |-> 0, branch |-> "none"]

\* No add call is in progress, and none has run next to another.
NoRace == race = [calls |-> [t \in Threads |-> Idle], started |-> 0, overlapped |-> FALSE]

NoSet ==
    /\ NoRace
    /\ ids = <<>>
    /\ mset = {}
    /\ sLast = [op |-> "none", value |-> 0, found |-> FALSE, raised |-> FALSE,
                batch |-> <<>>]

\* An operation that raised: nothing changed.
Raised == [heap |-> heap, events |-> NoEvents]

\* What an operation leaves: the heap without unreferenced dicts.
Finish(r, op) ==
    /\ heap' = Collect(r.heap, {m', other'})
    /\ events' = r.events
    /\ last' = op
    /\ UNCHANGED src
    /\ UNCHANGED setVars
    /\ UNCHANGED facVars

\* What o[k] = v does from the current state.
SetItemOf(o, k, v) ==
    CASE o.cls = "lccm" -> LimitedCapacityCacheMap_setitem(heap, o, k, v)
      [] o.cls = "fd" -> FreezableDict_setitem(heap, o, k, v)
      [] OTHER -> dict_setitem(heap, o, k, v)

\* What del o[k] does, k present.
DelItemOf(o, k) ==
    CASE o.cls = "lccm" -> LimitedCapacityCacheMap_delitem(heap, o, k)
      [] o.cls = "fd" -> FreezableDict_delitem(heap, o, k)
      [] OTHER -> dict_delitem(heap, o, k)

\* What o[k] does, k present.
GetItemOf(o, k) ==
    CASE o.cls = "lccm" -> LimitedCapacityCacheMap_getitem(heap, o, k)
      [] o.cls = "fd" -> FreezableDict_getitem(heap, o, k)
      [] OTHER -> dict_getitem(heap, o, k)

\* What o.clear() does.
ClearOf(o) ==
    CASE o.cls = "lccm" -> LimitedCapacityCacheMap_clear(heap, o)
      [] o.cls = "fd" -> FreezableDict_clear(heap, o)
      [] OTHER -> dict_clear(heap, o)

\* What m.copy() does, what `other` held before being dropped.
CopyOf ==
    LET lo == Fresh({m.data, src})
        hi == Fresh({m.data, src, lo})
        \* The allocator is free in the addresses it hands out: the dict that
        \* stays gets the lower one.
        f1 == IF Len(heap[m.data]) > 0 THEN lo ELSE hi
        f2 == IF Len(heap[m.data]) > 0 THEN hi ELSE lo
        h == Collect(heap, {m})
    IN  IF m.cls = "lccm"
        THEN LimitedCapacityCacheMap_copy(h, m, f1, f2)
        ELSE FreezableDict_copy(h, m, f1, f2)

\* What m.freeze() does.
FreezeOf ==
    LET f1 == Fresh({m.data, src})
        h == Collect(heap, {m})
    IN  IF m.cls = "lccm"
        THEN LimitedCapacityCacheMap_freeze(h, m, f1)
        ELSE FreezableDict_freeze(h, m, f1)

\* What cls(source, limit=limit, on_expire=on_expire) does.
NewOf(cls, limit, on_expire) ==
    IF cls = "lccm"
    THEN LimitedCapacityCacheMap_init(heap, src, limit, on_expire, Fresh({src}))
    ELSE FreezableDict_init(heap, src, Fresh({src}))

\* t[k] = v
SetItem(t, k, v) ==
    /\ Obj(t).cls # "none"
    /\ UNCHANGED <<m, other>>
    /\ Finish(SetItemOf(Obj(t), k, v), Op("setitem", t, k, v, FALSE))

\* del t[k]: KeyError, and nothing changed, when k is missing.
DelItem(t, k) ==
    /\ Obj(t).cls # "none"
    /\ UNCHANGED <<m, other>>
    /\ IF HasKey(Contents(Obj(t)), k)
       THEN Finish(DelItemOf(Obj(t), k), Op("delitem", t, k, 0, FALSE))
       ELSE Finish(Raised, Op("delitem", t, k, 0, TRUE))

\* t[k]: the value, or KeyError.
GetItem(t, k) ==
    /\ Obj(t).cls # "none"
    /\ UNCHANGED <<m, other>>
    /\ IF HasKey(Contents(Obj(t)), k)
       THEN Finish(GetItemOf(Obj(t), k),
                   Op("getitem", t, k, GetItemOf(Obj(t), k).value, FALSE))
       ELSE Finish(Raised, Op("getitem", t, k, 0, TRUE))

\* t.clear()
Clear(t) ==
    /\ Obj(t).cls # "none"
    /\ UNCHANGED <<m, other>>
    /\ Finish(ClearOf(Obj(t)), Op("clear", t, 0, 0, FALSE))

\* other = m.copy()
Copy ==
    /\ m.cls # "none"
    /\ m' = m
    /\ other' = CopyOf.obj
    /\ Finish(CopyOf, Op("copy", "m", 0, 0, FALSE))

\* other = m.freeze()
Freeze ==
    /\ m.cls # "none"
    /\ m' = m
    /\ other' = FreezeOf.obj
    /\ Finish(FreezeOf, Op("freeze", "m", 0, 0, FALSE))

\* m = cls(source, limit=limit, on_expire=on_expire)
New(cls, limit, on_expire) ==
    /\ m.cls = "none"
    /\ m' = NewOf(cls, limit, on_expire).obj
    /\ other' = other
    /\ Finish(NewOf(cls, limit, on_expire), Op("init", "m", 0, 0, FALSE))

\* Before the mapping is made: the caller holds a source dict, or None.
Start(K, V) ==
    /\ src \in {NoRef, 1}
    /\ \E d \in AllDicts(K, V) :
          /\ src = NoRef => d = <<>>
          /\ heap = [EmptyHeap EXCEPT ![1] = d]
    /\ m = NoObj
    /\ other = NoObj
    /\ events = NoEvents
    /\ last = Op("none", "m", 0, 0, FALSE)
    /\ NoSet
    /\ NoCall

----------------------------------------------------------------------------
(* SpecCache: one LimitedCapacityCacheMap, made from any source dict (or    *)
(* none) with any limit, with or without an on_expire callback.             *)

Keys == 1..MaxKey

Vals == 1..MaxVal

Limits == 0..MaxLimit

InitCache == Start(Keys, Vals)

NextCache ==
    \/ \E limit \in Limits, on_expire \in BOOLEAN : New("lccm", limit, on_expire)
    \/ \E k \in Keys, v \in Vals : SetItem("m", k, v)
    \/ \E k \in Keys : DelItem("m", k)
    \/ \E k \in Keys : GetItem("m", k)
    \/ Clear("m")

SpecCache == InitCache /\ [][NextCache]_vars

----------------------------------------------------------------------------
(* Claims about one LimitedCapacityCacheMap, under SpecCache.               *)

Pops(ev) == SelectSeq(ev, LAMBDA e : e.type = "pop")

Expires(ev) == SelectSeq(ev, LAMBDA e : e.type = "expire")

Over(d, limit) == IF Len(d) > limit THEN Len(d) - limit ELSE 0

\* The dict the constructor is given to work on: the source, or {} for None.
Given == IF src = NoRef THEN <<>> ELSE heap[src]

\* r is the outcome of a sweep over the dict d1 of an object o: the entries
\* evicted are the first Over(d1) ones, in order, the rest stay as they were,
\* and on_expire (when there is one) is called once per evicted value.
EvictsOldest(r, o, d1) ==
    LET n == Over(d1, o.limit)
    IN  /\ Len(Pops(r.events)) = n
        /\ \A i \in 1..n : /\ Pops(r.events)[i].key = d1[i].k
                           /\ Pops(r.events)[i].value = d1[i].v
        /\ r.heap[o.data] = SubSeq(d1, n + 1, Len(d1))
        /\ IF o.on_expire
           THEN /\ Len(Expires(r.events)) = n
                /\ \A i \in 1..n : Expires(r.events)[i].value = d1[i].v
           ELSE Expires(r.events) = <<>>

\* C1: a LimitedCapacityCacheMap with limit >= 0 never holds more than limit
\* entries, after construction and after every operation; and an insertion
\* of a new key that would take the size over limit leaves exactly limit.
C1_SizeWithinLimit ==
    /\ m.cls = "lccm" =>
          /\ Len(Contents(m)) <= m.limit
          /\ \A k \in Keys, v \in Vals :
                (~HasKey(Contents(m), k) /\ Len(Contents(m)) + 1 > m.limit)
                => Len(SetItemOf(m, k, v).heap[m.data]) = m.limit
    /\ m.cls = "none" =>
          \A limit \in Limits, on_expire \in BOOLEAN :
              LET r == NewOf("lccm", limit, on_expire)
              IN  Len(r.heap[r.obj.data]) = IF Len(Given) > limit THEN limit ELSE Len(Given)

\* An insertion of a new key into a full map has happened, and left it full.
C1_Witness ==
    /\ m.cls = "lccm" /\ m.limit = MaxLimit
    /\ last.op = "setitem" /\ Len(events) > 0
    /\ ~HasKey(Contents(m), events[1].key)
    /\ Len(Contents(m)) = m.limit

\* C2: when an insertion, or construction from an oversized source, leaves
\* the map k over limit, the entries evicted are exactly the k that were
\* inserted earliest among those present, the sweep evicts exactly k, and
\* on_expire is called exactly once per evicted value and for nothing else.
C2_EvictsEarliestInserted ==
    /\ m.cls = "lccm" =>
          \A k \in Keys, v \in Vals :
              EvictsOldest(SetItemOf(m, k, v), m, DictSetItem(Contents(m), k, v))
    /\ m.cls = "none" =>
          \A limit \in Limits, on_expire \in BOOLEAN :
              LET r == NewOf("lccm", limit, on_expire)
              IN  EvictsOldest(r, r.obj, Given)

\* A map was made from a source two over its limit, with a callback: two
\* entries went, one stayed.
C2_Witness ==
    /\ m.cls = "lccm" /\ m.on_expire
    /\ last.op = "init"
    /\ Len(Pops(events)) = 2 /\ Len(Expires(events)) = 2
    /\ Len(Contents(m)) = 1

\* r is the outcome of a sweep over d1: each callback follows the removal of
\* its own entry, sees the map without the entries evicted so far and with
\* all the later ones, and the callbacks come oldest entry first.
CallbackAfterEachRemoval(r, d1) ==
    LET ev == r.events
    IN  /\ Len(ev) % 2 = 0
        /\ \A j \in 1..(Len(ev) \div 2) :
              /\ ev[2 * j - 1].type = "pop"
              /\ ev[2 * j - 1].key = d1[j].k
              /\ ev[2 * j].type = "expire"
              /\ ev[2 * j].value = d1[j].v
              /\ ev[2 * j].present = DictKeys(SubSeq(d1, j + 1, Len(d1)))

\* C3: every on_expire(value) call comes after that value's entry has left
\* the map, entries go one at a time with the callback of one eviction run
\* before the next entry is removed, and callbacks come in removal order,
\* oldest-inserted first.
C3_CallbackAfterRemoval ==
    /\ (m.cls = "lccm" /\ m.on_expire) =>
          \A k \in Keys, v \in Vals :
              CallbackAfterEachRemoval(SetItemOf(m, k, v), DictSetItem(Contents(m), k, v))
    /\ m.cls = "none" =>
          \A limit \in Limits :
              CallbackAfterEachRemoval(NewOf("lccm", limit, TRUE), Given)

\* Two callbacks ran in one sweep: the first saw the second's entry still in
\* the map, and neither saw its own.
C3_Witness ==
    /\ m.cls = "lccm" /\ m.on_expire /\ last.op = "init"
    /\ Len(events) = 4
    /\ events[3].key \in {events[2].present[i] : i \in 1..Len(events[2].present)}
    /\ events[1].key \notin {events[2].present[i] : i \in 1..Len(events[2].present)}
    /\ events[3].key \notin {events[4].present[i] : i \in 1..Len(events[4].present)}

\* C4: assigning to a key that is present keeps its place in the eviction
\* order (a read keeps it too), so it still goes before every key inserted
\* after it; deleting the key and inserting it again makes it the newest.
C4_NoPromotionOnUpdate ==
    m.cls = "lccm" =>
        \A k \in KeySet(Contents(m)), v \in Vals :
            LET r1 == SetItemOf(m, k, v)
                d == Contents(m)
            IN  /\ DictKeys(r1.heap[m.data]) = DictKeys(d)
                /\ r1.events = NoEvents
                /\ GetItemOf(m, k).heap = heap
                \* the oldest key, updated, is still the one a new key evicts
                /\ \A k2 \in Keys \ KeySet(d), v2 \in Vals :
                      LET r2 == LimitedCapacityCacheMap_setitem(r1.heap, m, k2, v2)
                      IN  Len(d) = m.limit =>
                             /\ Len(Pops(r2.events)) = 1
                             /\ Pops(r2.events)[1].key = d[1].k
                             /\ k = d[1].k => Pops(r2.events)[1].value = v
                \* deleted and inserted again, it is the newest
                /\ LET r3 == DelItemOf(m, k)
                       r4 == LimitedCapacityCacheMap_setitem(r3.heap, m, k, v)
                   IN  DictKeys(r4.heap[m.data])
                           = SelectSeq(DictKeys(d), LAMBDA x : x # k) \o <<k>>

\* A key that is not the newest was assigned to, and is where it was.
C4_Witness ==
    /\ m.cls = "lccm" /\ last.op = "setitem" /\ events = NoEvents
    /\ Len(Contents(m)) >= 2
    /\ Contents(m)[1].k = last.key
    /\ Contents(m)[1].v = last.value

\* C28: on_expire is called for capacity evictions only: __delitem__ and
\* clear remove entries without calling it, assigning to a key that is
\* present replaces the value without calling it and evicts nothing, and
\* deleting a missing key raises KeyError and leaves the map as it was.
C28_OnExpireOnlyOnEviction ==
    [][m.cls = "lccm" =>
          LET d == heap[m.data]
              d1 == heap'[m'.data]
              k == last'.key
          IN  /\ last'.op = "clear" => (events' = NoEvents /\ d1 = <<>>)
              /\ last'.op = "delitem" => (last'.raised <=> ~HasKey(d, k))
              /\ (last'.op = "delitem" /\ ~last'.raised) =>
                     /\ events' = NoEvents
                     /\ d1 = SelectSeq(d, LAMBDA e : e.k # k)
              /\ (last'.op = "delitem" /\ last'.raised) =>
                     /\ events' = NoEvents
                     /\ d1 = d
                     /\ m' = m
              /\ (last'.op = "setitem" /\ HasKey(d, k)) =>
                     /\ events' = NoEvents
                     /\ DictKeys(d1) = DictKeys(d)
                     /\ DictGet(d1, k) = last'.value
                     /\ \A k2 \in KeySet(d) \ {k} : DictGet(d1, k2) = DictGet(d, k2)
      ]_vars

\* A full map with an on_expire callback had a key deleted, and the
\* callback was not called.
C28_Witness ==
    /\ m.cls = "lccm" /\ m.on_expire
    /\ last.op = "delitem" /\ ~last.raised
    /\ Len(Contents(m)) = m.limit - 1
    /\ Len(Contents(m)) >= 1
    /\ events = NoEvents

----------------------------------------------------------------------------
(* SpecCopy: a LimitedCapacityCacheMap or a FreezableDict m, and the object *)
(* its copy() or freeze() returned, each operated on in any order.          *)

CopyKeys == 1..CopyMaxKey

\* Values are opaque to all three classes: two that differ are what telling
\* an update from no update takes.
CopyVals == {1, 2}

CopyLimits == 0..CopyMaxLimit

InitCopy == Start(CopyKeys, CopyVals)

NextCopy ==
    \/ \E limit \in CopyLimits, on_expire \in BOOLEAN : New("lccm", limit, on_expire)
    \/ New("fd", 0, FALSE)
    \/ \E t \in {"m", "other"}, k \in CopyKeys, v \in CopyVals : SetItem(t, k, v)
    \/ \E t \in {"m", "other"}, k \in CopyKeys : DelItem(t, k)
    \/ \E t \in {"m", "other"} : Clear(t)
    \/ Copy
    \/ Freeze

SpecCopy == InitCopy /\ [][NextCopy]_vars

----------------------------------------------------------------------------
(* Claims about a mapping and its copy or frozen snapshot, under SpecCopy.  *)

\* No operation on the object a changes what the object b holds.
LeavesAlone(a, b) ==
    /\ \A k \in CopyKeys, v \in CopyVals :
          SetItemOf(a, k, v).heap[b.data] = Contents(b)
    /\ \A k \in KeySet(Contents(a)) :
          /\ DelItemOf(a, k).heap[b.data] = Contents(b)
          /\ GetItemOf(a, k).heap[b.data] = Contents(b)
    /\ ClearOf(a).heap[b.data] = Contents(b)

\* C5: copy() on a LimitedCapacityCacheMap or a FreezableDict returns a
\* mapping of the same class with the same entries in the same order; no
\* later insert, update, delete, clear or eviction on either changes the
\* other; a cache map's copy has the same limit and callback, evicts by the
\* same policy, and making it calls on_expire not once.
C5_CopyIsIndependent ==
    /\ m.cls \in {"lccm", "fd"} =>
          LET r == CopyOf
          IN  /\ r.obj.cls = m.cls
              /\ r.heap[r.obj.data] = Contents(m)
              /\ r.heap[m.data] = Contents(m)
              /\ r.obj.limit = m.limit
              /\ r.obj.on_expire = m.on_expire
              /\ r.events = NoEvents
    /\ other.cls \in {"lccm", "fd"} =>
          /\ LeavesAlone(m, other)
          /\ LeavesAlone(other, m)
          /\ other.cls = m.cls /\ other.limit = m.limit /\ other.on_expire = m.on_expire
          /\ other.cls = "lccm" =>
                /\ Len(Contents(other)) <= other.limit
                /\ \A k \in CopyKeys, v \in CopyVals :
                      EvictsOldest(SetItemOf(other, k, v), other,
                                   DictSetItem(Contents(other), k, v))

\* An insertion into a cache map's copy evicted the copy's oldest entry, and
\* the original still holds its own.
C5_Witness ==
    /\ m.cls = "lccm" /\ other.cls = "lccm"
    /\ last.op = "setitem" /\ last.target = "other"
    /\ Len(Pops(events)) = 1
    /\ HasKey(Contents(m), events[1].key)
    /\ ~HasKey(Contents(other), events[1].key)

\* C6: freeze() on a LimitedCapacityCacheMap or a FreezableDict returns a
\* plain dict of the entries present at the call; later operations on the
\* source (evictions too) never change the snapshot, operations on the
\* snapshot never change the source, and the snapshot has no limit and
\* never calls on_expire, however many entries it is given.
C6_FreezeIsPlainSnapshot ==
    /\ m.cls \in {"lccm", "fd"} =>
          LET r == FreezeOf
          IN  /\ r.obj.cls = "dict"
              /\ r.heap[r.obj.data] = Contents(m)
              /\ r.heap[m.data] = Contents(m)
              /\ r.events = NoEvents
    /\ other.cls = "dict" =>
          /\ LeavesAlone(m, other)
          /\ LeavesAlone(other, m)
          /\ \A k \in CopyKeys, v \in CopyVals :
                /\ SetItemOf(other, k, v).heap[other.data]
                       = DictSetItem(Contents(other), k, v)
                /\ SetItemOf(other, k, v).events = NoEvents

\* A snapshot of a cache map was given more entries than the map's limit,
\* and holds them all; the map holds what it held.
C6_Witness ==
    /\ m.cls = "lccm" /\ m.limit = CopyMaxLimit /\ other.cls = "dict"
    /\ last.op = "setitem" /\ last.target = "other" /\ events = NoEvents
    /\ Len(Contents(other)) > m.limit
    /\ Len(Contents(m)) = m.limit

----------------------------------------------------------------------------
(* SnowflakeSet: a sorted array of unsigned 64-bit integers.                *)

Elems(a) == {a[i] : i \in 1..Len(a)}

\* What array.array("Q") takes: anything else is an OverflowError.
Storable(x) == 0 <= x /\ x <= MaxSf

Kept(a) == [ids |-> a, raised |-> FALSE]

Overflow(a) == [ids |-> a, raised |-> TRUE]

array_append(a, x) == IF Storable(x) THEN Kept(Append(a, x)) ELSE Overflow(a)

\* An insert that takes any integer.
array_insert_unchecked(a, i, x) ==
    Kept(SubSeq(a, 1, i) \o <<x>> \o SubSeq(a, i + 1, Len(a)))

\* a.insert(i, x): x goes before the item at (0-based) index i.
array_insert(a, i, x) ==
    IF Storable(x)
    THEN Kept(SubSeq(a, 1, i) \o <<x>> \o SubSeq(a, i + 1, Len(a)))
    ELSE Overflow(a)

\* del a[i], i a 0-based index inside the array.
array_delitem(a, i) == SubSeq(a, 1, i) \o SubSeq(a, i + 2, Len(a))

RECURSIVE bisect_left(_, _, _, _)
\* bisect.bisect_left(a, x): binary search for the leftmost place x fits.
bisect_left(a, x, lo, hi) ==
    IF lo < hi
    THEN LET mid == (lo + hi) \div 2
         IN  IF a[mid + 1] < x
             THEN bisect_left(a, x, mid + 1, hi)
             ELSE bisect_left(a, x, lo, mid)
    ELSE lo

SnowflakeSet_len(a) == Len(a)

\* An add that inserts one place too far to the right.
SnowflakeSet_add_off_by_one(a, value) ==
    LET index == bisect_left(a, value, 0, Len(a))
    IN  IF index = Len(a)
        THEN array_append(a, value)
        ELSE IF a[index + 1] # value
             THEN array_insert(a, index + 1, value)
             ELSE Kept(a)

\* An add that does not look whether the value is there already.
SnowflakeSet_add_no_dedupe(a, value) ==
    LET index == bisect_left(a, value, 0, Len(a))
    IN  IF index = Len(a)
        THEN array_append(a, value)
        ELSE array_insert(a, index, value)

RECURSIVE bisect_right(_, _, _, _)
bisect_right(a, x, lo, hi) ==
    IF lo < hi
    THEN LET mid == (lo + hi) \div 2
         IN  IF x < a[mid + 1]
             THEN bisect_right(a, x, lo, mid)
             ELSE bisect_right(a, x, mid + 1, hi)
    ELSE lo

\* An add that searches with bisect_right.
SnowflakeSet_add_bisect_right(a, value) ==
    LET index == bisect_right(a, value, 0, Len(a))
    IN  IF index = Len(a)
        THEN array_append(a, value)
        ELSE IF a[index + 1] # value
             THEN array_insert(a, index, value)
             ELSE Kept(a)

SnowflakeSet_add(a, value) ==
    LET index == bisect_left(a, value, 0, Len(a))
    IN  IF index = Len(a)
        THEN array_append(a, value)
        ELSE IF a[index + 1] # value
             THEN array_insert(a, index, value)
             ELSE Kept(a)

RECURSIVE SnowflakeSet_add_all_no_dedupe(_, _)
\* An add_all whose copy of add lost the test for a stored value.
SnowflakeSet_add_all_no_dedupe(a, sfs) ==
    IF sfs = <<>>
    THEN Kept(a)
    ELSE LET sf == Head(sfs)
             index == bisect_left(a, sf, 0, Len(a))
             step == IF index = Len(a)
                     THEN array_append(a, sf)
                     ELSE array_insert(a, index, sf)
         IN  IF step.raised
             THEN step
             ELSE SnowflakeSet_add_all_no_dedupe(step.ids, Tail(sfs))

RECURSIVE SnowflakeSet_add_all(_, _)
\* The loop of add_all, which repeats the code of add for each item; an
\* empty collection returns at once, as the loop would.
SnowflakeSet_add_all(a, sfs) ==
    IF sfs = <<>>
    THEN Kept(a)
    ELSE LET sf == Head(sfs)
             index == bisect_left(a, sf, 0, Len(a))
             step == IF index = Len(a)
                     THEN array_append(a, sf)
                     ELSE IF a[index + 1] # sf
                          THEN array_insert(a, index, sf)
                          ELSE Kept(a)
         IN  IF step.raised THEN step ELSE SnowflakeSet_add_all(step.ids, Tail(sfs))

SnowflakeSet_init(args) ==
    IF args # <<>> THEN SnowflakeSet_add_all(<<>>, args) ELSE Kept(<<>>)

SnowflakeSet_clear(a) == Kept(<<>>)

\* A discard that reads self._ids[index] without looking at the length: an
\* IndexError when the value is past the last item.
SnowflakeSet_discard_unchecked(a, value) ==
    IF a = <<>>
    THEN Kept(a)
    ELSE LET index == bisect_left(a, value, 0, Len(a))
         IN  IF index = Len(a)
             THEN [ids |-> a, raised |-> TRUE]
             ELSE IF a[index + 1] = value
                  THEN Kept(array_delitem(a, index))
                  ELSE Kept(a)

SnowflakeSet_discard(a, value) ==
    IF a = <<>>
    THEN Kept(a)
    ELSE LET index == bisect_left(a, value, 0, Len(a))
         IN  IF index < SnowflakeSet_len(a) /\ a[index + 1] = value
             THEN Kept(array_delitem(a, index))
             ELSE Kept(a)

\* A Python object as __contains__ sees it: whether it is an int, and the
\* number it compares equal to (1.0 is not an int and equals 1).
PyObject(isint, n) == [isint |-> isint, n |-> n]

\* A membership test that searches with bisect_right.
SnowflakeSet_contains_bisect_right(a, value) ==
    IF ~value.isint
    THEN FALSE
    ELSE LET index == bisect_right(a, value.n, 0, Len(a))
         IN  IF index < Len(a) THEN a[index + 1] = value.n ELSE FALSE

SnowflakeSet_contains(a, value) ==
    IF ~value.isint
    THEN FALSE
    ELSE LET index == bisect_left(a, value.n, 0, Len(a))
         IN  IF index < Len(a) THEN a[index + 1] = value.n ELSE FALSE

\* snowflakes.Snowflake(x): an int subclass holding the same number.
Snowflake(x) == x

\* iter(set): the array's items, first to last, each as a Snowflake.
SnowflakeSet_iter(a) == [i \in 1..Len(a) |-> Snowflake(a[i])]

SfVals == (0 - 1)..(MaxSf + 1)

Snowflakes == {x \in SfVals : Storable(x)}

Batches == UNION {[1..n -> SfVals] : n \in 0..MaxBatch}

RECURSIVE StorablePrefix(_)
\* The items of sfs before the first one the array refuses.
StorablePrefix(sfs) ==
    IF sfs = <<>> \/ ~Storable(Head(sfs))
    THEN {}
    ELSE {Head(sfs)} \cup StorablePrefix(Tail(sfs))

SetOp(op, value, found, raised) ==
    [op |-> op, value |-> value, found |-> found, raised |-> raised,
     batch |-> <<>>]

Add(v) ==
    LET r == SnowflakeSet_add(ids, v)
    IN  /\ ids' = r.ids
        /\ mset' = IF Storable(v) THEN mset \cup {v} ELSE mset
        /\ sLast' = SetOp("add", v, v \in mset, r.raised)
        /\ UNCHANGED race
        /\ UNCHANGED mapVars
        /\ UNCHANGED facVars

AddAll(sfs) ==
    LET r == SnowflakeSet_add_all(ids, sfs)
    IN  /\ ids' = r.ids
        /\ mset' = mset \cup StorablePrefix(sfs)
        /\ sLast' = [SetOp("add_all", Len(sfs), FALSE, r.raised)
                        EXCEPT !.batch = sfs]
        /\ UNCHANGED race
        /\ UNCHANGED mapVars
        /\ UNCHANGED facVars

Discard(v) ==
    LET r == SnowflakeSet_discard(ids, v)
    IN  /\ ids' = r.ids
        /\ mset' = mset \ {v}
        /\ sLast' = SetOp("discard", v, v \in mset, r.raised)
        /\ UNCHANGED race
        /\ UNCHANGED mapVars
        /\ UNCHANGED facVars

ClearSet ==
    LET r == SnowflakeSet_clear(ids)
    IN  /\ ids' = r.ids
        /\ mset' = {}
        /\ sLast' = SetOp("clear", 0, FALSE, r.raised)
        /\ UNCHANGED race
        /\ UNCHANGED mapVars
        /\ UNCHANGED facVars

\* No mapping is in play.
NoMap ==
    /\ heap = EmptyHeap
    /\ src = NoRef
    /\ m = NoObj
    /\ other = NoObj
    /\ events = NoEvents
    /\ last = Op("none", "m", 0, 0, FALSE)

\* The state after SnowflakeSet(*args), for the args it accepts.
InitSet ==
    /\ NoMap
    /\ NoCall
    /\ NoRace
    /\ \E args \in Batches :
          /\ ~SnowflakeSet_init(args).raised
          /\ ids = SnowflakeSet_init(args).ids
          /\ mset = Elems(args)
          /\ sLast = [SetOp("init", Len(args), FALSE, FALSE)
                        EXCEPT !.batch = args]

NextSet ==
    \/ \E v \in SfVals : Add(v)
    \/ \E sfs \in Batches : AddAll(sfs)
    \/ \E v \in SfVals : Discard(v)
    \/ ClearSet

SpecSet == InitSet /\ [][NextSet]_vars

\* Insertions only.
NextInsert ==
    \/ \E v \in SfVals : Add(v)
    \/ \E sfs \in Batches : AddAll(sfs)

SpecInsert == InitSet /\ [][NextInsert]_vars

----------------------------------------------------------------------------
(* SpecRace: two threads call add on one SnowflakeSet with nothing to       *)
(* serialise them. A call is three steps, and another thread may run        *)
(* between any two: the search, the test that picks a branch, the store.    *)

\* A search that stops right of an equal item.
add_search_bisect_right(a, value) == bisect_right(a, value, 0, Len(a))

\* index = bisect.bisect_left(self._ids, value)
add_search(a, value) == bisect_left(a, value, 0, Len(a))

\* if index == len(self._ids): ... elif self._ids[index] != value: ...
add_branch(a, index, value) ==
    IF index = Len(a)
    THEN "append"
    ELSE IF a[index + 1] # value THEN "insert" ELSE "none"

\* self._ids.append(value) or self._ids.insert(index, value)
add_store(a, branch, index, value) ==
    IF branch = "append" THEN array_append(a, value) ELSE array_insert(a, index, value)

\* A step of thread t, its call being c afterwards: it ran next to another
\* call when some other thread is inside one.
Step(t, c, started) ==
    race' = [calls |-> [race.calls EXCEPT ![t] = c],
             started |-> started,
             overlapped |-> race.overlapped
                                \/ \E u \in Threads \ {t} : race.calls[u].pc # "idle"]

AddSearch(t, v) ==
    /\ race.calls[t].pc = "idle"
    /\ race.started < MaxCalls
    /\ Step(t, [pc |-> "searched", value |-> v, index |-> add_search(ids, v),
                branch |-> "none"],
            race.started + 1)
    /\ UNCHANGED <<ids, mset, sLast>>
    /\ UNCHANGED mapVars
    /\ UNCHANGED facVars

AddDecide(t) ==
    LET c == race.calls[t]
        branch == add_branch(ids, c.index, c.value)
    IN  /\ c.pc = "searched"
        /\ IF branch = "none"
           THEN /\ Step(t, Idle, race.started)
                /\ sLast' = SetOp("add", c.value, TRUE, FALSE)
           ELSE /\ Step(t, [c EXCEPT !.pc = "decided", !.branch = branch], race.started)
                /\ UNCHANGED sLast
        /\ UNCHANGED <<ids, mset>>
        /\ UNCHANGED mapVars
        /\ UNCHANGED facVars

AddStore(t) ==
    LET c == race.calls[t]
        r == add_store(ids, c.branch, c.index, c.value)
    IN  /\ c.pc = "decided"
        /\ ids' = r.ids
        /\ mset' = mset \cup {c.value}
        /\ sLast' = SetOp("add", c.value, c.value \in mset, r.raised)
        /\ Step(t, Idle, race.started)
        /\ UNCHANGED mapVars
        /\ UNCHANGED facVars

InitRace == NoMap /\ NoCall /\ NoSet

NextRace ==
    \/ \E t \in Threads, v \in Snowflakes : AddSearch(t, v)
    \/ \E t \in Threads : AddDecide(t)
    \/ \E t \in Threads : AddStore(t)

SpecRace == InitRace /\ [][NextRace]_vars

----------------------------------------------------------------------------
(* Claims about SnowflakeSet, under SpecSet and SpecInsert.                 *)

StrictlyIncreasing(a) == \A i \in 1..(Len(a) - 1) : a[i] < a[i + 1]

Least(S) == CHOOSE x \in S : \A y \in S : x <= y

RECURSIVE Ascending(_)
\* The members of a finite set of integers, least first.
Ascending(S) ==
    IF S = {} THEN <<>> ELSE <<Least(S)>> \o Ascending(S \ {Least(S)})

Without(a, v) == SelectSeq(a, LAMBDA x : x # v)

\* C7: after construction and after every add, add_all, discard and clear,
\* the backing array is strictly increasing: ids[i] < ids[i+1] for adjacent
\* indexes, so it holds no duplicate.
C7_ArrayStrictlyIncreasing == StrictlyIncreasing(ids)

\* A value was added between two stored ones.
C7_Witness ==
    /\ sLast.op = "add" /\ ~sLast.found /\ ~sLast.raised
    /\ Len(ids) >= 3
    /\ ids[2] = sLast.value

\* C8: whatever the order, and with whatever repeats, distinct values are
\* inserted into an initially empty SnowflakeSet, iterating it yields
\* exactly those values in ascending order, each once: the contents do not
\* depend on the insertion order.
C8_IterationAscending == SnowflakeSet_iter(ids) = Ascending(mset)

\* Every snowflake of the model is in the set, and the least came last.
C8_Witness ==
    /\ mset = Snowflakes
    /\ sLast.op = "add" /\ sLast.value = 0 /\ ~sLast.found
    /\ Len(SnowflakeSet_iter(ids)) = MaxSf + 1

\* C9: add(v), v a snowflake, changes nothing when v is present, so adding
\* twice is adding once; when v is absent it puts v at the one place that
\* keeps the array sorted, the length grows by one and every other item
\* stays.
C9_AddInsertsOnce ==
    \A v \in Snowflakes :
        LET r == SnowflakeSet_add(ids, v)
        IN  /\ ~r.raised
            /\ SnowflakeSet_add(r.ids, v) = r
            /\ IF v \in Elems(ids)
               THEN r.ids = ids
               ELSE /\ Len(r.ids) = Len(ids) + 1
                    /\ Elems(r.ids) = Elems(ids) \cup {v}
                    /\ StrictlyIncreasing(r.ids)
                    /\ Without(r.ids, v) = ids

\* A value that was present was added again.
C9_Witness ==
    /\ sLast.op = "add" /\ sLast.found /\ ~sLast.raised
    /\ sLast.value \in Elems(ids)
    /\ Len(ids) >= 2

\* C10: discard(v) removes v and nothing else when v is present (one item
\* fewer, the others in their order) and changes nothing and raises
\* nothing when v is absent, on an empty set and for v above every item too.
C10_DiscardRemovesOnlyV ==
    \A v \in SfVals :
        LET r == SnowflakeSet_discard(ids, v)
        IN  /\ ~r.raised
            /\ IF v \in Elems(ids)
               THEN /\ r.ids = Without(ids, v)
                    /\ Len(r.ids) = Len(ids) - 1
               ELSE r.ids = ids

\* A value above every stored item was discarded from a set that is not
\* empty.
C10_Witness ==
    /\ sLast.op = "discard" /\ ~sLast.found /\ ~sLast.raised
    /\ ids # <<>>
    /\ \A x \in Elems(ids) : x < sLast.value

\* C11: after any sequence of add, add_all, discard and clear the set
\* answers as the mathematical set of integers under the same operations:
\* v in set exactly when v was added and not discarded or cleared since,
\* len(set) is the number of distinct members, and an object that is not an
\* int is never a member, whatever number it equals.
C11_BehavesAsSetOfIntegers ==
    /\ \A v \in SfVals :
           SnowflakeSet_contains(ids, PyObject(TRUE, v)) <=> v \in mset
    /\ SnowflakeSet_len(ids) = Cardinality(mset)
    /\ \A v \in SfVals : ~SnowflakeSet_contains(ids, PyObject(FALSE, v))

\* A member was discarded from between two others: it is no longer found,
\* its neighbours are, and a non-int equal to a member is not.
C11_Witness ==
    /\ sLast.op = "discard" /\ sLast.found
    /\ Len(ids) >= 2
    /\ ids[1] < sLast.value /\ sLast.value < ids[Len(ids)]
    /\ ~SnowflakeSet_contains(ids, PyObject(TRUE, sLast.value))
    /\ SnowflakeSet_contains(ids, PyObject(TRUE, ids[1]))
    /\ ~SnowflakeSet_contains(ids, PyObject(FALSE, ids[1]))

RECURSIVE AddEach(_, _)
\* add(v) for each v of sfs in order; the first one that raises ends it.
AddEach(a, sfs) ==
    IF sfs = <<>>
    THEN Kept(a)
    ELSE LET r == SnowflakeSet_add(a, Head(sfs))
         IN  IF r.raised THEN r ELSE AddEach(r.ids, Tail(sfs))

\* C12: add_all(values) leaves the set as add(v) for each v of values in
\* the given order does, unsorted values and repeats included;
\* SnowflakeSet(*ids) is add_all(ids) on an empty set; add_all of an empty
\* collection changes nothing.
C12_AddAllIsRepeatedAdd ==
    /\ \A sfs \in Batches :
           SnowflakeSet_add_all(ids, sfs) = AddEach(ids, sfs)
    /\ \A args \in Batches :
           SnowflakeSet_init(args) = SnowflakeSet_add_all(<<>>, args)
    /\ SnowflakeSet_add_all(ids, <<>>) = Kept(ids)
    /\ sLast.op = "init" => Kept(ids) = AddEach(<<>>, sLast.batch)

\* add_all was given values out of order, on a set that holds others too.
C12_Witness ==
    /\ sLast.op = "add_all" /\ ~sLast.raised
    /\ Len(sLast.batch) >= 2
    /\ sLast.batch[1] > sLast.batch[2]
    /\ Elems(sLast.batch) \subseteq Elems(ids)
    /\ Len(ids) > Len(sLast.batch)

\* C29: a SnowflakeSet never stores a value outside the unsigned 64-bit
\* range: add(v) with v below 0 or above the largest such value raises and
\* leaves the contents, their order and the length as they were, on an
\* empty and on a non-empty set; a membership test for such a value is
\* False, without an error.
C29_OutOfRangeRefused ==
    /\ \A i \in 1..Len(ids) : Storable(ids[i])
    /\ \A v \in SfVals \ Snowflakes :
           /\ SnowflakeSet_add(ids, v) = Overflow(ids)
           /\ ~SnowflakeSet_contains(ids, PyObject(TRUE, v))
    /\ (sLast.op = "add" /\ ~Storable(sLast.value)) =>
           /\ sLast.raised
           /\ Elems(ids) = mset
           /\ SnowflakeSet_len(ids) = Cardinality(mset)

\* A set of two values was asked to add -1, which goes before them all,
\* and refused.
C29_Witness ==
    /\ sLast.op = "add" /\ sLast.raised
    /\ sLast.value = 0 - 1
    /\ Len(ids) = 2

\* C27: SnowflakeSet is not safe for concurrent mutation. When two add
\* calls run with nothing to serialise them and one runs between the
\* search and the store of the other, the backing array can come to hold a
\* duplicate or to be out of order; as long as every call has run on its
\* own, the array is strictly increasing.
C27_OnlyOverlappingAddsBreakOrder ==
    ~StrictlyIncreasing(ids) => race.overlapped

\* Both threads added the same absent value, each having searched before
\* the other stored: the array holds it twice.
C27_Witness ==
    /\ race.overlapped
    /\ \A t \in Threads : race.calls[t].pc = "idle"
    /\ race.started = 2
    /\ Len(ids) = 2
    /\ ids[1] = ids[2]

----------------------------------------------------------------------------
(* get_index_or_slice, and SpecIndex: a mapping of up to MaxItems items,    *)
(* read by index and by slice.                                              *)

PySlice(start, stop, step) ==
    [t |-> "slice", start |-> start, stop |-> stop, step |-> step]

\* itertools.islice(values, start, stop, step), run to its end: ValueError
\* for a negative start or stop and for a step below 1, else the values at
\* the positions start, start + step, ... below stop.
islice(values, start, stop, step) ==
    IF \/ (start # PyNone /\ start.n < 0)
       \/ (stop # PyNone /\ stop.n < 0)
       \/ (step # PyNone /\ step.n < 1)
    THEN Raise("ValueError")
    ELSE LET lo == IF start = PyNone THEN 0 ELSE start.n
             hi == IF stop = PyNone \/ stop.n > Len(values) THEN Len(values) ELSE stop.n
             by == IF step = PyNone THEN 1 ELSE step.n
             n == Cardinality({i \in lo..(hi - 1) : (i - lo) % by = 0})
         IN  Ok([j \in 1..n |-> values[lo + (j - 1) * by + 1]])

\* get_index_or_slice(mapping, index_or_slice), mapping given by its items
\* in iteration order.
get_index_or_slice(d, index_or_slice) ==
    IF index_or_slice.t = "slice"
    THEN LET it == islice(DictValues(d), index_or_slice.start, index_or_slice.stop,
                          index_or_slice.step)
         IN  IF Failed(it) THEN it ELSE Ok(PyTuple(it.value))
    ELSE LET it == islice(DictValues(d), index_or_slice, PyNone, PyNone)
         IN  IF Failed(it)
             THEN it
             ELSE IF it.value = <<>>
             THEN Raise("IndexError")
             ELSE Ok(Head(it.value))

\* get_index_or_slice(m, index_or_slice): reads m, changes nothing.
GetIndexOrSlice(index_or_slice) ==
    LET r == get_index_or_slice(Contents(m), index_or_slice)
    IN  /\ m.cls # "none"
        /\ UNCHANGED <<m, other>>
        /\ Finish([heap |-> heap, events |-> NoEvents],
                  Op("get_index_or_slice", "m", index_or_slice, r, Failed(r)))

Indexes == {PyInt(i) : i \in (0 - MaxItems - 1)..(MaxItems + 1)}

SliceEnds == {PyNone} \cup {PyInt(i) : i \in (0 - 1)..MaxItems}

SliceSteps == {PyNone} \cup {PyInt(i) : i \in 0..MaxItems}

Slices == {PySlice(start, stop, step) : start, stop \in SliceEnds, step \in SliceSteps}

\* m is a dict of up to MaxItems items.
InitIndex ==
    /\ src = NoRef
    /\ \E d \in AllDicts(1..MaxItems, 1..MaxItems) :
          heap = [EmptyHeap EXCEPT ![1] = d]
    /\ m = [cls |-> "dict", data |-> 1, limit |-> 0, on_expire |-> FALSE]
    /\ other = NoObj
    /\ events = NoEvents
    /\ last = Op("none", "m", 0, 0, FALSE)
    /\ NoSet
    /\ NoCall

NextIndex ==
    \/ \E i \in Indexes : GetIndexOrSlice(i)
    \/ \E slice \in Slices : GetIndexOrSlice(slice)

SpecIndex == InitIndex /\ [][NextIndex]_vars

\* C26: get_index_or_slice(mapping, i) with an integer i returns the value
\* at position i of the mapping's iteration order when i is inside the
\* range of the mapping's contents, and raises IndexError for every integer
\* outside that range, a negative i and an empty mapping included; the
\* mapping is never modified.
C26_IndexErrorOutsideRange ==
    /\ [][heap'[m'.data] = heap[m.data]]_vars
    /\ [](last.op = "get_index_or_slice" /\ last.key.t = "int" =>
             LET i == last.key.n
                 values == DictValues(Contents(m))
             IN  IF 0 <= i /\ i < Len(values)
                 THEN last.value = Ok(values[i + 1])
                 ELSE last.value = Raise("IndexError"))

----------------------------------------------------------------------------
(* The entity factory (hikari/impl/entity_factory.py). A method returns a   *)
(* value or raises; a payload is a JSON object, a function from its keys    *)
(* to Python values.                                                        *)

\* "key" in payload
Has(payload, key) == key \in DOMAIN payload

\* payload.get(key)
payload_get(payload, key) == IF Has(payload, key) THEN payload[key] ELSE PyNone

\* payload[key] with None standing in for a key that is missing.
payload_item_defaulted(payload, key) ==
    IF Has(payload, key) THEN Ok(payload[key]) ELSE Ok(PyNone)

\* payload[key]
payload_item(payload, key) ==
    IF Has(payload, key) THEN Ok(payload[key]) ELSE Raise("KeyError")

\* A key that a payload may leave out, when payloads are enumerated.
Absent == [t |-> "absent"]

\* The payload that a choice of one value per key stands for.
Payload(choice) ==
    [k \in {key \in DOMAIN choice : choice[key] # Absent} |-> choice[k]]

\* The payload with key set to v, or without key when v is Absent.
WithKey(payload, key, v) ==
    IF v = Absent
    THEN [k \in DOMAIN payload \ {key} |-> payload[k]]
    ELSE [k \in DOMAIN payload \cup {key} |-> IF k = key THEN v ELSE payload[k]]

\* int(v)
py_int(v) ==
    CASE v.t = "int" -> Ok(v)
      [] v.t = "bool" -> Ok(PyInt(IF v.b THEN 1 ELSE 0))
      [] v.t = "str" ->
            IF "digits" \in DOMAIN v THEN Ok(PyInt(v.digits)) ELSE Raise("ValueError")
      [] OTHER -> Raise("TypeError")

\* v as a number in a comparison or in arithmetic: ints and bools only.
py_number(v) ==
    CASE v.t = "int" -> Ok(v)
      [] v.t = "bool" -> Ok(PyInt(IF v.b THEN 1 ELSE 0))
      [] OTHER -> Raise("TypeError")

\* snowflake.Snowflake(v): an int subclass, made as int(v) is.
snowflake_Snowflake(v) ==
    LET i == py_int(v)
    IN  IF Failed(i) THEN i ELSE Ok([t |-> "Snowflake", n |-> i.value.n])

\* str(v)
py_str(v) ==
    CASE v.t = "str" -> Ok(v)
      [] v.t = "int" -> Ok(PyNumStr(v.n))
      [] v.t = "bool" -> Ok(PyStr(IF v.b THEN "True" ELSE "False"))
      [] v.t = "NoneType" -> Ok(PyStr("None"))
      [] OTHER -> Ok(PyStr("repr"))

\* bool(v): only 0, False, None and what is empty are false.
py_bool(v) ==
    CASE v.t = "int" -> Ok(PyBool(v.n # 0))
      [] v.t = "bool" -> Ok(v)
      [] v.t = "str" -> Ok(PyBool(v # PyStr("")))
      [] v.t = "NoneType" -> Ok(PyBool(FALSE))
      [] v.t = "list" -> Ok(PyBool(v.items # <<>>))
      [] v.t = "dict" -> Ok(PyBool(DOMAIN v.items # {}))
      [] OTHER -> Ok(PyBool(TRUE))

SecondsPerDay == 86400

\* datetime.timedelta(days=days, seconds=seconds), which Python keeps
\* normalised: 0 <= seconds < 86400.
timedelta(days, seconds) ==
    LET total == days * SecondsPerDay + seconds
    IN  [t |-> "timedelta", days |-> total \div SecondsPerDay,
         seconds |-> total % SecondsPerDay]

\* timedelta.total_seconds()
total_seconds(td) == td.days * SecondsPerDay + td.seconds

deserialize_seconds_timedelta(seconds) ==
    LET i == py_int(seconds)
    IN  IF Failed(i) THEN i ELSE Ok(timedelta(0, i.value.n))

deserialize_day_timedelta(days) ==
    LET i == py_int(days)
    IN  IF Failed(i) THEN i ELSE Ok(timedelta(i.value.n, 0))

deserialize_max_uses(age) ==
    LET i == py_number(age)
    IN  IF Failed(i) THEN i ELSE IF i.value.n > 0 THEN Ok(age) ELSE Ok(PyNone)

deserialize_max_age(seconds) ==
    LET i == py_number(seconds)
    IN  IF Failed(i)
        THEN i
        ELSE IF i.value.n > 0 THEN Ok(timedelta(0, i.value.n)) ELSE Ok(PyNone)

\* datetime.isoformat() of the time a timestamp text spells: the fraction
\* of a second is left out when it is zero.
isoformat(stamp) ==
    IF stamp = "2020-05-01T12:00:00.000000+00:00"
    THEN "2020-05-01T12:00:00+00:00"
    ELSE stamp

\* date.iso8601_datetime_string_to_datetime(v): the time that v spells, held
\* as the text that isoformat() gives for it.
iso8601_datetime_string_to_datetime(v) ==
    IF v.t = "str"
    THEN IF "iso" \in DOMAIN v
         THEN Ok([t |-> "datetime", iso |-> isoformat(v.iso)])
         ELSE Raise("ValueError")
    ELSE Raise("TypeError")

\* The str that is an ISO-8601 timestamp.
PyIsoStr(stamp) == [t |-> "str", iso |-> stamp]

\* One attribute of a model being built, and the outcome of computing it.
Field(name, r) == [name |-> name, r |-> r]

\* The attributes are computed in order: the first that raises ends the
\* method, otherwise the model holds every value.
Build(cls, fields) ==
    LET bad == {i \in 1..Len(fields) : Failed(fields[i].r)}
        first == CHOOSE i \in bad : \A j \in bad : i <= j
        names == {fields[i].name : i \in 1..Len(fields)}
        at(name) == CHOOSE i \in 1..Len(fields) : fields[i].name = name
    IN  IF bad # {}
        THEN Raise(fields[first].r.exc)
        ELSE Ok([t |-> cls, attrs |-> [k \in names |-> fields[at(k)].r.value]])

\* A nested entity whose decoder reads the required keys of its payload
\* (KeyError when one is missing) and keeps the id as a Snowflake.
decode_entity(cls, v, required) ==
    IF v.t # "dict"
    THEN Raise("TypeError")
    ELSE IF \E k \in required : ~Has(v.items, k)
         THEN Raise("KeyError")
         ELSE LET id == snowflake_Snowflake(v.items["id"])
              IN  IF Failed(id)
                  THEN id
                  ELSE Ok([t |-> cls, id |-> id.value, payload |-> v.items])

\* Each item of a list decoded as decode_entity does, in order.
decode_each(cls, v, required) ==
    IF v.t # "list"
    THEN Raise("TypeError")
    ELSE LET rs == [i \in 1..Len(v.items) |-> decode_entity(cls, v.items[i], required)]
             bad == {i \in 1..Len(v.items) : Failed(rs[i])}
         IN  IF bad # {}
             THEN rs[CHOOSE i \in bad : \A j \in bad : i <= j]
             ELSE Ok(PyList([i \in 1..Len(v.items) |-> rs[i].value]))

\* The positions of keys at which a key appears for the first time, as an
\* increasing sequence: a dict keeps the place of a key's first insertion.
first_insertions(keys) ==
    LET firsts == {i \in 1..Len(keys) : \A j \in 1..(i - 1) : keys[j] # keys[i]}
    IN  [k \in 1..Cardinality(firsts) |->
            CHOOSE i \in firsts : Cardinality({j \in firsts : j < i}) = k - 1]

\* The same dict comprehension, its keys kept last-inserted first.
dict_of_reversed(keys, values) ==
    LET at == first_insertions(keys)
    IN  [t |-> "dict",
         items |-> [k \in {keys[i] : i \in 1..Len(keys)} |->
                       values[CHOOSE i \in 1..Len(keys) :
                                  /\ keys[i] = k
                                  /\ \A j \in 1..Len(keys) : keys[j] = k => j <= i]],
         order |-> [k \in 1..Len(at) |-> keys[at[Len(at) + 1 - k]]]]

\* {key: value for ...} over keys[i], values[i] in order: of two items of
\* one key the later stays, at the place of the first; order lists the keys
\* as iteration meets them.
dict_of(keys, values) ==
    LET at == first_insertions(keys)
    IN  [t |-> "dict",
         items |-> [k \in {keys[i] : i \in 1..Len(keys)} |->
                       values[CHOOSE i \in 1..Len(keys) :
                                  /\ keys[i] = k
                                  /\ \A j \in 1..Len(keys) : keys[j] = k => j <= i]],
         order |-> [k \in 1..Len(at) |-> keys[at[k]]]]

\* {snowflake.Snowflake(item["id"]): decode(item) for item in ...}
decode_each_by_id(cls, v, required) ==
    LET each == decode_each(cls, v, required)
    IN  IF Failed(each)
        THEN each
        ELSE Ok(dict_of([i \in 1..Len(each.value.items) |-> each.value.items[i].id],
                        each.value.items))

\* An enum or flag class called on a raw value. The classes are declared in
\* hikari.models; the payloads enumerated here carry values they have.
enum_of(cls, v) == Ok([t |-> cls, value |-> v])

\* An invite that reads 0 as an age of no seconds.
invite_max_age_zero_is_a_duration(max_age) ==
    LET i == py_number(max_age)
    IN  IF Failed(i)
        THEN i
        ELSE IF i.value.n >= 0 THEN Ok(timedelta(0, i.value.n)) ELSE Ok(PyNone)

\* datetime.timedelta(seconds=max_age) if max_age > 0 else None
invite_max_age(max_age) ==
    LET i == py_number(max_age)
    IN  IF Failed(i)
        THEN i
        ELSE IF i.value.n > 0 THEN Ok(timedelta(0, i.value.n)) ELSE Ok(PyNone)

\* converter(v), converter named as the source names it.
Convert(converter, v) ==
    CASE converter = "snowflake.Snowflake" -> snowflake_Snowflake(v)
      [] converter = "int" -> py_int(v)
      [] converter = "str" -> py_str(v)
      [] converter = "bool" -> py_bool(v)
      [] converter = "_deserialize_seconds_timedelta" -> deserialize_seconds_timedelta(v)
      [] converter = "_deserialize_day_timedelta" -> deserialize_day_timedelta(v)
      [] converter = "_deserialize_max_uses" -> deserialize_max_uses(v)
      [] converter = "_deserialize_max_age" -> deserialize_max_age(v)
      [] converter = "date.iso8601_datetime_string_to_datetime" ->
            iso8601_datetime_string_to_datetime(v)
      [] converter = "invite.max_age" -> invite_max_age(v)
      [] converter = "self._deserialize_audit_log_change_roles" ->
            decode_each("PartialRole", v, {"id", "name"})
      [] converter = "self._deserialize_audit_log_overwrites" ->
            decode_each("PermissionOverwrite", v,
                        {"id", "type", "allow_new", "deny_new"})
      [] OTHER -> enum_of(converter, v)

\* converter(payload[key]): a missing key raises before the converter runs.
item_as(payload, key, converter) ==
    IF Has(payload, key) THEN Convert(converter, payload[key]) ELSE Raise("KeyError")

\* channel_models.ChannelType: the wire number of each member.
ChannelType ==
    [GUILD_TEXT |-> 0, PRIVATE_TEXT |-> 1, GUILD_VOICE |-> 2,
     PRIVATE_GROUP_TEXT |-> 3, GUILD_CATEGORY |-> 4, GUILD_NEWS |-> 5,
     GUILD_STORE |-> 6]

\* ChannelType(v): the member with that number, ValueError when none has it.
ChannelType_of(v) ==
    IF v.t = "int" /\ \E name \in DOMAIN ChannelType : ChannelType[name] = v.n
    THEN Ok([t |-> "ChannelType", value |-> v.n])
    ELSE Raise("ValueError")

\* self._dm_channel_type_mapping
dm_channel_type_mapping ==
    (ChannelType.PRIVATE_TEXT :> "deserialize_private_text_channel")
        @@ (ChannelType.PRIVATE_GROUP_TEXT :> "deserialize_private_group_text_channel")

\* self._guild_channel_type_mapping
guild_channel_type_mapping ==
    (ChannelType.GUILD_CATEGORY :> "deserialize_guild_category")
        @@ (ChannelType.GUILD_TEXT :> "deserialize_guild_text_channel")
        @@ (ChannelType.GUILD_NEWS :> "deserialize_guild_news_channel")
        @@ (ChannelType.GUILD_STORE :> "deserialize_guild_store_channel")
        @@ (ChannelType.GUILD_VOICE :> "deserialize_guild_voice_channel")

\* Whether a mapping keyed by enum members has the raw value v as a key.
IsKey(mapping, v) == v.t = "int" /\ v.n \in DOMAIN mapping

UserKeys == {"id", "discriminator", "username", "avatar"}

\* Snowflake(payload[key]) unless it is None; the key has to be there.
item_as_optional_snowflake(payload, key) ==
    IF ~Has(payload, key)
    THEN Raise("KeyError")
    ELSE IF payload[key] = PyNone THEN Ok(PyNone) ELSE snowflake_Snowflake(payload[key])

\* Snowflake(payload.get(key)) unless it is None.
get_as_optional_snowflake(payload, key) ==
    IF payload_get(payload, key) = PyNone
    THEN Ok(PyNone)
    ELSE snowflake_Snowflake(payload[key])

set_partial_channel_attributes(payload) ==
    << Field("id", item_as(payload, "id", "snowflake.Snowflake")),
       Field("name", Ok(payload_get(payload, "name"))),
       Field("type", IF Has(payload, "type")
                     THEN ChannelType_of(payload["type"])
                     ELSE Raise("KeyError")) >>

deserialize_partial_channel(payload) ==
    Build("PartialChannel", set_partial_channel_attributes(payload))

deserialize_private_text_channel(payload) ==
    Build("PrivateTextChannel",
          set_partial_channel_attributes(payload) \o
          << Field("last_message_id",
                   item_as_optional_snowflake(payload, "last_message_id")),
             Field("recipient",
                   IF ~Has(payload, "recipients")
                   THEN Raise("KeyError")
                   ELSE IF payload["recipients"].t # "list"
                        THEN Raise("TypeError")
                        ELSE IF payload["recipients"].items = <<>>
                             THEN Raise("IndexError")
                             ELSE decode_entity("UserImpl",
                                                payload["recipients"].items[1],
                                                UserKeys)) >>)

deserialize_private_group_text_channel(payload) ==
    Build("GroupPrivateTextChannel",
          set_partial_channel_attributes(payload) \o
          << Field("last_message_id",
                   item_as_optional_snowflake(payload, "last_message_id")),
             Field("owner_id", item_as(payload, "owner_id", "snowflake.Snowflake")),
             Field("icon_hash", payload_item(payload, "icon")),
             Field("nicknames",
                   IF payload_get(payload, "nicks") # PyNone
                   THEN decode_each("nickname", payload["nicks"], {"id", "nick"})
                   ELSE Ok(PyList(<<>>))),
             Field("application_id",
                   IF Has(payload, "application_id")
                   THEN snowflake_Snowflake(payload["application_id"])
                   ELSE Ok(PyNone)),
             Field("recipients",
                   IF Has(payload, "recipients")
                   THEN decode_each("UserImpl", payload["recipients"], UserKeys)
                   ELSE Raise("KeyError")) >>)

\* A guild channel that takes the payload's guild_id whenever it has one.
guild_channel_guild_id_payload_first(payload, guild_id) ==
    IF Has(payload, "guild_id")
    THEN snowflake_Snowflake(payload["guild_id"])
    ELSE IF guild_id # UNDEFINED THEN Ok(guild_id) ELSE Raise("KeyError")

\* guild_id if guild_id is not undefined.UNDEFINED
\* else snowflake.Snowflake(payload["guild_id"])
guild_channel_guild_id(payload, guild_id) ==
    IF guild_id # UNDEFINED
    THEN Ok(guild_id)
    ELSE item_as(payload, "guild_id", "snowflake.Snowflake")

set_guild_channel_attributes(payload, guild_id) ==
    set_partial_channel_attributes(payload) \o
    << Field("guild_id", guild_channel_guild_id(payload, guild_id)),
       Field("position", item_as(payload, "position", "int")),
       Field("permission_overwrites",
             IF Has(payload, "permission_overwrites")
             THEN decode_each("PermissionOverwrite", payload["permission_overwrites"],
                              {"id", "type", "allow_new", "deny_new"})
             ELSE Raise("KeyError")),
       Field("is_nsfw", Ok(payload_get(payload, "nsfw"))),
       Field("parent_id", get_as_optional_snowflake(payload, "parent_id")) >>

\* date.iso8601_datetime_string_to_datetime(payload.get(key)) unless None.
get_as_optional_datetime(payload, key) ==
    IF payload_get(payload, key) = PyNone
    THEN Ok(PyNone)
    ELSE iso8601_datetime_string_to_datetime(payload[key])

deserialize_guild_category(payload, guild_id) ==
    Build("GuildCategory", set_guild_channel_attributes(payload, guild_id))

deserialize_guild_text_channel(payload, guild_id) ==
    Build("GuildTextChannel",
          set_guild_channel_attributes(payload, guild_id) \o
          << Field("topic", payload_item(payload, "topic")),
             Field("last_message_id",
                   item_as_optional_snowflake(payload, "last_message_id")),
             Field("rate_limit_per_user",
                   LET seconds == IF Has(payload, "rate_limit_per_user")
                                  THEN py_number(payload["rate_limit_per_user"])
                                  ELSE Ok(PyInt(0))
                   IN  IF Failed(seconds)
                       THEN seconds
                       ELSE Ok(timedelta(0, seconds.value.n))),
             Field("last_pin_timestamp",
                   get_as_optional_datetime(payload, "last_pin_timestamp")) >>)

deserialize_guild_news_channel(payload, guild_id) ==
    Build("GuildNewsChannel",
          set_guild_channel_attributes(payload, guild_id) \o
          << Field("topic", payload_item(payload, "topic")),
             Field("last_message_id",
                   item_as_optional_snowflake(payload, "last_message_id")),
             Field("last_pin_timestamp",
                   get_as_optional_datetime(payload, "last_pin_timestamp")) >>)

deserialize_guild_store_channel(payload, guild_id) ==
    Build("GuildStoreChannel", set_guild_channel_attributes(payload, guild_id))

deserialize_guild_voice_channel(payload, guild_id) ==
    Build("GuildVoiceChannel",
          set_guild_channel_attributes(payload, guild_id) \o
          << Field("bitrate", item_as(payload, "bitrate", "int")),
             Field("user_limit", item_as(payload, "user_limit", "int")) >>)

\* The method a channel type mapping names, called.
channel_model(name, payload, guild_id) ==
    CASE name = "deserialize_guild_category" ->
            deserialize_guild_category(payload, guild_id)
      [] name = "deserialize_guild_text_channel" ->
            deserialize_guild_text_channel(payload, guild_id)
      [] name = "deserialize_guild_news_channel" ->
            deserialize_guild_news_channel(payload, guild_id)
      [] name = "deserialize_guild_store_channel" ->
            deserialize_guild_store_channel(payload, guild_id)
      [] name = "deserialize_guild_voice_channel" ->
            deserialize_guild_voice_channel(payload, guild_id)
      [] name = "deserialize_private_text_channel" ->
            deserialize_private_text_channel(payload)
      [] name = "deserialize_private_group_text_channel" ->
            deserialize_private_group_text_channel(payload)

deserialize_channel(payload, guild_id) ==
    IF ~Has(payload, "type")
    THEN Raise("KeyError")
    ELSE LET channel_type == payload["type"]
         IN  IF IsKey(guild_channel_type_mapping, channel_type)
             THEN channel_model(guild_channel_type_mapping[channel_type.n],
                                payload, guild_id)
             ELSE IF IsKey(dm_channel_type_mapping, channel_type)
                  THEN channel_model(dm_channel_type_mapping[channel_type.n],
                                     payload, guild_id)
                  ELSE Raise("KeyError")

\* The attributes _set_invite_attributes sets, in its order.
set_invite_attributes(payload) ==
    LET guild == IF Has(payload, "guild")
                 THEN decode_entity("InviteGuild", payload["guild"],
                                    {"id", "name", "icon", "splash", "banner",
                                     "description", "verification_level",
                                     "vanity_url_code"})
                 ELSE Ok(PyNone)
        guild_id == IF Has(payload, "guild")
                    THEN IF Failed(guild) THEN guild ELSE Ok(guild.value.id)
                    ELSE IF Has(payload, "guild_id")
                         THEN snowflake_Snowflake(payload["guild_id"])
                         ELSE Ok(PyNone)
        nested == payload_get(payload, "channel") # PyNone
        channel == IF nested
                   THEN IF payload["channel"].t = "dict"
                        THEN deserialize_partial_channel(payload["channel"].items)
                        ELSE Raise("TypeError")
                   ELSE Ok(PyNone)
        channel_id == IF nested
                      THEN IF Failed(channel)
                           THEN channel
                           ELSE Ok(channel.value.attrs["id"])
                      ELSE item_as(payload, "channel_id", "snowflake.Snowflake")
        user(key) == IF Has(payload, key)
                     THEN decode_entity("UserImpl", payload[key],
                                        {"id", "discriminator", "username",
                                         "avatar"})
                     ELSE Ok(PyNone)
        count(key) == IF Has(payload, key) THEN py_int(payload[key]) ELSE Ok(PyNone)
    IN  << Field("code", payload_item(payload, "code")),
           Field("guild", guild),
           Field("guild_id", guild_id),
           Field("channel", channel),
           Field("channel_id", channel_id),
           Field("inviter", user("inviter")),
           Field("target_user", user("target_user")),
           Field("target_user_type",
                 IF Has(payload, "target_user_type")
                 THEN enum_of("TargetUserType", payload["target_user_type"])
                 ELSE Ok(PyNone)),
           Field("approximate_presence_count", count("approximate_presence_count")),
           Field("approximate_member_count", count("approximate_member_count")) >>

deserialize_invite(payload) == Build("Invite", set_invite_attributes(payload))

deserialize_invite_with_metadata(payload) ==
    Build("InviteWithMetadata",
          set_invite_attributes(payload) \o
          << Field("uses", item_as(payload, "uses", "int")),
             Field("max_uses", item_as(payload, "max_uses", "int")),
             Field("max_age", item_as(payload, "max_age", "invite.max_age")),
             Field("is_temporary", payload_item(payload, "temporary")),
             Field("created_at",
                   item_as(payload, "created_at",
                           "date.iso8601_datetime_string_to_datetime")) >>)

\* audit_log_models.AuditLogChangeKey: the wire string of each member. The
\* members above NAME are the keys of the converter table.
AuditLogChangeKey ==
    [OWNER_ID |-> "owner_id", AFK_CHANNEL_ID |-> "afk_channel_id",
     AFK_TIMEOUT |-> "afk_timeout", MFA_LEVEL |-> "mfa_level",
     VERIFICATION_LEVEL |-> "verification_level",
     EXPLICIT_CONTENT_FILTER |-> "explicit_content_filter",
     DEFAULT_MESSAGE_NOTIFICATIONS |-> "default_message_notifications",
     PRUNE_DELETE_DAYS |-> "prune_delete_days",
     WIDGET_CHANNEL_ID |-> "widget_channel_id", POSITION |-> "position",
     BITRATE |-> "bitrate", APPLICATION_ID |-> "application_id",
     PERMISSIONS |-> "permissions", COLOR |-> "color", ALLOW |-> "allow",
     DENY |-> "deny", CHANNEL_ID |-> "channel_id", INVITER_ID |-> "inviter_id",
     MAX_USES |-> "max_uses", USES |-> "uses", MAX_AGE |-> "max_age",
     ID |-> "id", TYPE |-> "type", ENABLE_EMOTICONS |-> "enable_emoticons",
     EXPIRE_BEHAVIOR |-> "expire_behavior",
     EXPIRE_GRACE_PERIOD |-> "expire_grace_period",
     RATE_LIMIT_PER_USER |-> "rate_limit_per_user",
     SYSTEM_CHANNEL_ID |-> "system_channel_id",
     ADD_ROLE_TO_MEMBER |-> "$add", REMOVE_ROLE_FROM_MEMBER |-> "$remove",
     PERMISSION_OVERWRITES |-> "permission_overwrites",
     NAME |-> "name", ICON_HASH |-> "icon_hash", NICK |-> "nick"]

\* Whether AuditLogChangeKey(v) finds a member.
IsChangeKey(v) ==
    /\ v.t = "str"
    /\ "s" \in DOMAIN v
    /\ \E name \in DOMAIN AuditLogChangeKey : AuditLogChangeKey[name] = v.s

\* AuditLogChangeKey(v): the member with that string, ValueError when none
\* has it.
AuditLogChangeKey_of(v) ==
    IF IsChangeKey(v)
    THEN Ok([t |-> "AuditLogChangeKey",
             name |-> CHOOSE name \in DOMAIN AuditLogChangeKey :
                          AuditLogChangeKey[name] = v.s,
             value |-> v.s])
    ELSE Raise("ValueError")

\* self._audit_log_entry_converters
audit_log_entry_converters ==
    [OWNER_ID |-> "snowflake.Snowflake",
     AFK_CHANNEL_ID |-> "snowflake.Snowflake",
     AFK_TIMEOUT |-> "_deserialize_seconds_timedelta",
     MFA_LEVEL |-> "guild_models.GuildMFALevel",
     VERIFICATION_LEVEL |-> "guild_models.GuildVerificationLevel",
     EXPLICIT_CONTENT_FILTER |-> "guild_models.GuildExplicitContentFilterLevel",
     DEFAULT_MESSAGE_NOTIFICATIONS |-> "guild_models.GuildMessageNotificationsLevel",
     PRUNE_DELETE_DAYS |-> "_deserialize_day_timedelta",
     WIDGET_CHANNEL_ID |-> "snowflake.Snowflake",
     POSITION |-> "int",
     BITRATE |-> "int",
     APPLICATION_ID |-> "snowflake.Snowflake",
     PERMISSIONS |-> "permission_models.Permission",
     COLOR |-> "color_models.Color",
     ALLOW |-> "permission_models.Permission",
     DENY |-> "permission_models.Permission",
     CHANNEL_ID |-> "snowflake.Snowflake",
     INVITER_ID |-> "snowflake.Snowflake",
     MAX_USES |-> "_deserialize_max_uses",
     USES |-> "int",
     MAX_AGE |-> "_deserialize_max_age",
     ID |-> "snowflake.Snowflake",
     TYPE |-> "str",
     ENABLE_EMOTICONS |-> "bool",
     EXPIRE_BEHAVIOR |-> "guild_models.IntegrationExpireBehaviour",
     EXPIRE_GRACE_PERIOD |-> "_deserialize_day_timedelta",
     RATE_LIMIT_PER_USER |-> "_deserialize_seconds_timedelta",
     SYSTEM_CHANNEL_ID |-> "snowflake.Snowflake",
     ADD_ROLE_TO_MEMBER |-> "self._deserialize_audit_log_change_roles",
     REMOVE_ROLE_FROM_MEMBER |-> "self._deserialize_audit_log_change_roles",
     PERMISSION_OVERWRITES |-> "self._deserialize_audit_log_overwrites"]

\* self._audit_log_entry_converters.get(key): the converter's name, or
\* "None" when the table has none for the key.
entry_converter(key) ==
    IF key.t = "AuditLogChangeKey" /\ key.name \in DOMAIN audit_log_entry_converters
    THEN audit_log_entry_converters[key.name]
    ELSE "None"

\* value_converter(value) if value is not None else None
converted(value_converter, value) ==
    IF value # PyNone THEN Convert(value_converter, value) ELSE Ok(PyNone)

\* A change decoder that does not catch the ValueError of a key the enum
\* does not have.
change_key_no_except(change_payload) ==
    IF ~Has(change_payload, "key")
    THEN Raise("KeyError")
    ELSE AuditLogChangeKey_of(change_payload["key"])

\* The key of a change: the member, or the raw key on ValueError.
change_key(change_payload) ==
    IF ~Has(change_payload, "key")
    THEN Raise("KeyError")
    ELSE IF Failed(AuditLogChangeKey_of(change_payload["key"]))
         THEN Ok(change_payload["key"])
         ELSE AuditLogChangeKey_of(change_payload["key"])

\* A change decoder that converts old_value only next to a new_value.
deserialize_audit_log_change_old_with_new(change_payload) ==
    LET key == change_key(change_payload)
        new_value == payload_get(change_payload, "new_value")
        old_value == payload_get(change_payload, "old_value")
        value_converter == IF Failed(key) THEN "None" ELSE entry_converter(key.value)
    IN  Build("AuditLogChange",
              << Field("key", key),
                 Field("new_value", IF value_converter # "None"
                                    THEN converted(value_converter, new_value)
                                    ELSE Ok(new_value)),
                 Field("old_value", IF value_converter # "None"
                                    THEN IF new_value # PyNone
                                         THEN converted(value_converter, old_value)
                                         ELSE Ok(PyNone)
                                    ELSE Ok(old_value)) >>)

\* One turn of the loop over an entry's changes.
deserialize_audit_log_change(change_payload) ==
    LET key == change_key(change_payload)
        new_value == payload_get(change_payload, "new_value")
        old_value == payload_get(change_payload, "old_value")
        value_converter == IF Failed(key) THEN "None" ELSE entry_converter(key.value)
    IN  Build("AuditLogChange",
              << Field("key", key),
                 Field("new_value", IF value_converter # "None"
                                    THEN converted(value_converter, new_value)
                                    ELSE Ok(new_value)),
                 Field("old_value", IF value_converter # "None"
                                    THEN converted(value_converter, old_value)
                                    ELSE Ok(old_value)) >>)

\* audit_log_models.AuditLogEventType: the wire number of each member. The
\* members from CHANNEL_OVERWRITE_CREATE to MESSAGE_UNPIN are the keys of
\* the event mapping.
AuditLogEventType ==
    [GUILD_UPDATE |-> 1, CHANNEL_CREATE |-> 10,
     CHANNEL_OVERWRITE_CREATE |-> 13, CHANNEL_OVERWRITE_UPDATE |-> 14,
     CHANNEL_OVERWRITE_DELETE |-> 15, MEMBER_PRUNE |-> 21, MEMBER_MOVE |-> 26,
     MEMBER_DISCONNECT |-> 27, MESSAGE_DELETE |-> 72,
     MESSAGE_BULK_DELETE |-> 73, MESSAGE_PIN |-> 74, MESSAGE_UNPIN |-> 75,
     INTEGRATION_CREATE |-> 80]

\* Whether AuditLogEventType(v) finds a member.
IsEventType(v) ==
    /\ v.t = "int"
    /\ \E name \in DOMAIN AuditLogEventType : AuditLogEventType[name] = v.n

\* AuditLogEventType(v): the member with that number, ValueError when none
\* has it.
AuditLogEventType_of(v) ==
    IF IsEventType(v)
    THEN Ok([t |-> "AuditLogEventType",
             name |-> CHOOSE name \in DOMAIN AuditLogEventType :
                          AuditLogEventType[name] = v.n,
             value |-> v.n])
    ELSE Raise("ValueError")

\* self._audit_log_event_mapping
audit_log_event_mapping ==
    [CHANNEL_OVERWRITE_CREATE |-> "_deserialize_channel_overwrite_entry_info",
     CHANNEL_OVERWRITE_UPDATE |-> "_deserialize_channel_overwrite_entry_info",
     CHANNEL_OVERWRITE_DELETE |-> "_deserialize_channel_overwrite_entry_info",
     MESSAGE_PIN |-> "_deserialize_message_pin_entry_info",
     MESSAGE_UNPIN |-> "_deserialize_message_pin_entry_info",
     MEMBER_PRUNE |-> "_deserialize_member_prune_entry_info",
     MESSAGE_BULK_DELETE |-> "_deserialize_message_bulk_delete_entry_info",
     MESSAGE_DELETE |-> "_deserialize_message_delete_entry_info",
     MEMBER_DISCONNECT |-> "_deserialize_member_disconnect_entry_info",
     MEMBER_MOVE |-> "_deserialize_member_move_entry_info"]

deserialize_channel_overwrite_entry_info(payload) ==
    Build("ChannelOverwriteEntryInfo",
          << Field("id", item_as(payload, "id", "snowflake.Snowflake")),
             Field("type", item_as(payload, "type",
                                   "channel_models.PermissionOverwriteType")),
             Field("role_name", Ok(payload_get(payload, "role_name"))) >>)

deserialize_message_pin_entry_info(payload) ==
    Build("MessagePinEntryInfo",
          << Field("channel_id", item_as(payload, "channel_id", "snowflake.Snowflake")),
             Field("message_id", item_as(payload, "message_id", "snowflake.Snowflake")) >>)

deserialize_member_prune_entry_info(payload) ==
    Build("MemberPruneEntryInfo",
          << Field("delete_member_days",
                   item_as(payload, "delete_member_days", "_deserialize_day_timedelta")),
             Field("members_removed", item_as(payload, "members_removed", "int")) >>)

deserialize_message_bulk_delete_entry_info(payload) ==
    Build("MessageBulkDeleteEntryInfo",
          << Field("count", item_as(payload, "count", "int")) >>)

deserialize_message_delete_entry_info(payload) ==
    Build("MessageDeleteEntryInfo",
          << Field("channel_id", item_as(payload, "channel_id", "snowflake.Snowflake")),
             Field("count", item_as(payload, "count", "int")) >>)

deserialize_member_disconnect_entry_info(payload) ==
    Build("MemberDisconnectEntryInfo",
          << Field("count", item_as(payload, "count", "int")) >>)

deserialize_member_move_entry_info(payload) ==
    Build("MemberMoveEntryInfo",
          << Field("channel_id", item_as(payload, "channel_id", "snowflake.Snowflake")),
             Field("count", item_as(payload, "count", "int")) >>)

\* UnrecognisedAuditLogEntryInfo(payload): the payload, kept as it came.
deserialize_unrecognised_audit_log_entry_info(options) ==
    Ok([t |-> "UnrecognisedAuditLogEntryInfo", payload |-> options])

\* self._audit_log_event_mapping.get(entry.action_type)
\*     or self._deserialize_unrecognised_audit_log_entry_info
option_converter(action_type) ==
    IF action_type.t = "AuditLogEventType"
           /\ action_type.name \in DOMAIN audit_log_event_mapping
    THEN audit_log_event_mapping[action_type.name]
    ELSE "_deserialize_unrecognised_audit_log_entry_info"

\* option_converter(options): a decoder of the mapping reads the keys of
\* the options, which have to be a JSON object.
convert_options(converter, options) ==
    IF converter = "_deserialize_unrecognised_audit_log_entry_info"
    THEN deserialize_unrecognised_audit_log_entry_info(options)
    ELSE IF options.t # "dict"
    THEN Raise("TypeError")
    ELSE CASE converter = "_deserialize_channel_overwrite_entry_info" ->
                 deserialize_channel_overwrite_entry_info(options.items)
           [] converter = "_deserialize_message_pin_entry_info" ->
                 deserialize_message_pin_entry_info(options.items)
           [] converter = "_deserialize_member_prune_entry_info" ->
                 deserialize_member_prune_entry_info(options.items)
           [] converter = "_deserialize_message_bulk_delete_entry_info" ->
                 deserialize_message_bulk_delete_entry_info(options.items)
           [] converter = "_deserialize_message_delete_entry_info" ->
                 deserialize_message_delete_entry_info(options.items)
           [] converter = "_deserialize_member_disconnect_entry_info" ->
                 deserialize_member_disconnect_entry_info(options.items)
           [] converter = "_deserialize_member_move_entry_info" ->
                 deserialize_member_move_entry_info(options.items)

\* The changes of an entry, each decoded in order; none when the entry has
\* no changes or null.
entry_changes(entry_payload) ==
    LET change_payloads == payload_get(entry_payload, "changes")
    IN  IF change_payloads = PyNone
        THEN Ok(PyList(<<>>))
        ELSE IF change_payloads.t # "list"
        THEN Raise("TypeError")
        ELSE LET n == Len(change_payloads.items)
                 rs == [i \in 1..n |->
                           IF change_payloads.items[i].t = "dict"
                           THEN deserialize_audit_log_change(change_payloads.items[i].items)
                           ELSE Raise("TypeError")]
                 bad == {i \in 1..n : Failed(rs[i])}
             IN  IF bad # {}
                 THEN rs[CHOOSE i \in bad : \A j \in bad : i <= j]
                 ELSE Ok(PyList([i \in 1..n |-> rs[i].value]))

\* An entry decoder that does not catch the ValueError of an action type
\* the enum does not have.
entry_action_type_no_except(entry_payload) ==
    IF ~Has(entry_payload, "action_type")
    THEN Raise("KeyError")
    ELSE AuditLogEventType_of(entry_payload["action_type"])

\* The action type of an entry: the member, or the raw value on ValueError.
entry_action_type(entry_payload) ==
    IF ~Has(entry_payload, "action_type")
    THEN Raise("KeyError")
    ELSE IF Failed(AuditLogEventType_of(entry_payload["action_type"]))
         THEN Ok(entry_payload["action_type"])
         ELSE AuditLogEventType_of(entry_payload["action_type"])

\* The options of an entry: None when it has none or null.
entry_options(entry_payload) ==
    LET options == payload_get(entry_payload, "options")
        action_type == entry_action_type(entry_payload)
    IN  IF options = PyNone \/ Failed(action_type)
        THEN Ok(PyNone)
        ELSE convert_options(option_converter(action_type.value), options)

\* The attributes of one entry, in the order the loop body sets them.
audit_log_entry_attributes(entry_payload) ==
    << Field("id", item_as(entry_payload, "id", "snowflake.Snowflake")),
       Field("target_id", item_as_optional_snowflake(entry_payload, "target_id")),
       Field("changes", entry_changes(entry_payload)),
       Field("user_id", item_as_optional_snowflake(entry_payload, "user_id")),
       Field("action_type", entry_action_type(entry_payload)),
       Field("options", entry_options(entry_payload)),
       Field("reason", Ok(payload_get(entry_payload, "reason"))) >>

\* One turn of the loop over payload["audit_log_entries"].
deserialize_audit_log_entry(entry_payload) ==
    Build("AuditLogEntry", audit_log_entry_attributes(entry_payload))

\* The entries of a log, each decoded in order and kept under its id.
audit_log_entries(payload) ==
    IF ~Has(payload, "audit_log_entries")
    THEN Raise("KeyError")
    ELSE IF payload["audit_log_entries"].t # "list"
    THEN Raise("TypeError")
    ELSE LET entry_payloads == payload["audit_log_entries"].items
             n == Len(entry_payloads)
             rs == [i \in 1..n |->
                       IF entry_payloads[i].t = "dict"
                       THEN deserialize_audit_log_entry(entry_payloads[i].items)
                       ELSE Raise("TypeError")]
             bad == {i \in 1..n : Failed(rs[i])}
         IN  IF bad # {}
             THEN rs[CHOOSE i \in bad : \A j \in bad : i <= j]
             ELSE Ok(dict_of([i \in 1..n |-> rs[i].value.attrs["id"]],
                             [i \in 1..n |-> rs[i].value]))

\* The entries, integrations, users and webhooks of an audit log, each a
\* dict keyed by id.
deserialize_audit_log(payload) ==
    Build("AuditLog",
          << Field("entries", audit_log_entries(payload)),
             Field("integrations",
                   IF Has(payload, "integrations")
                   THEN decode_each_by_id("PartialIntegration", payload["integrations"],
                                          {"id", "name", "type", "account"})
                   ELSE Raise("KeyError")),
             Field("users",
                   IF Has(payload, "users")
                   THEN decode_each_by_id("UserImpl", payload["users"], UserKeys)
                   ELSE Raise("KeyError")),
             Field("webhooks",
                   IF Has(payload, "webhooks")
                   THEN decode_each_by_id("Webhook", payload["webhooks"],
                                          {"id", "type", "channel_id", "name", "avatar"})
                   ELSE Raise("KeyError")) >>)

\* Embeds. A str whose text matters character by character is the sequence
\* of its characters.
PyText(chars) == [t |-> "str", chars |-> chars]

\* The characters str.strip() removes from both ends.
Whitespace == {" ", "\t", "\n"}

\* The decimal digits of a natural number.
RECURSIVE Decimal(_)
Decimal(n) ==
    LET digit == <<"0", "1", "2", "3", "4", "5", "6", "7", "8", "9">>[(n % 10) + 1]
    IN  IF n < 10 THEN <<digit>> ELSE Append(Decimal(n \div 10), digit)

\* The characters of a str: of a text, or of the str of an int.
str_chars(v) ==
    CASE "chars" \in DOMAIN v -> v.chars
      [] "digits" \in DOMAIN v -> Decimal(v.digits)

\* text.strip()
RECURSIVE str_strip(_)
str_strip(chars) ==
    IF chars = <<>>
    THEN chars
    ELSE IF Head(chars) \in Whitespace
    THEN str_strip(Tail(chars))
    ELSE IF chars[Len(chars)] \in Whitespace
    THEN str_strip(SubSeq(chars, 1, Len(chars) - 1))
    ELSE chars

\* raise TypeError(f"in embed.fields[{i}].{attribute} - cannot have {what}")
RaiseInField(i, attribute, what) ==
    [exc |-> "TypeError", value |-> PyNone,
     message |-> [index |-> i, attribute |-> attribute, cannot_have |-> what]]

\* str(x) if x is not None else None
str_unless_none(x) == IF x = PyNone THEN PyNone ELSE py_str(x).value

\* What is wrong with the name or the value of a field, if anything.
blank(text) ==
    IF text = PyNone
    THEN "None"
    ELSE IF str_chars(text) = <<>>
    THEN "empty string"
    ELSE IF str_strip(str_chars(text)) = <<>>
    THEN "only whitespace"
    ELSE "nothing"

\* A field check that looks at the value before the name.
serialize_embed_field_value_first(field, i) ==
    LET name == str_unless_none(field.attrs["name"])
        value == str_unless_none(field.attrs["value"])
    IN  IF blank(value) # "nothing"
        THEN RaiseInField(i, "value", blank(value))
        ELSE IF blank(name) # "nothing"
        THEN RaiseInField(i, "name", blank(name))
        ELSE Ok(PyDict([name |-> name, value |-> value,
                        inline |-> field.attrs["is_inline"]]))

\* One turn of the loop over enumerate(embed.fields): the payload of the
\* field, or the TypeError of a name or a value that is blank.
serialize_embed_field(field, i) ==
    LET name == str_unless_none(field.attrs["name"])
        value == str_unless_none(field.attrs["value"])
    IN  IF blank(name) # "nothing"
        THEN RaiseInField(i, "name", blank(name))
        ELSE IF blank(value) # "nothing"
        THEN RaiseInField(i, "value", blank(value))
        ELSE Ok(PyDict([name |-> name, value |-> value,
                        inline |-> field.attrs["is_inline"]]))

\* The field payloads, last field first.
serialize_embed_fields_reversed(fields) ==
    IF fields = PyNone \/ fields.items = <<>>
    THEN Ok(Absent)
    ELSE LET n == Len(fields.items)
             rs == [k \in 1..n |-> serialize_embed_field(fields.items[k], k - 1)]
             bad == {k \in 1..n : Failed(rs[k])}
         IN  IF bad # {}
             THEN rs[CHOOSE k \in bad : \A j \in bad : k <= j]
             ELSE Ok(PyList([k \in 1..n |-> rs[n + 1 - k].value]))

\* payload["fields"], left out when the embed has no fields; i counts
\* from 0.
serialize_embed_fields(fields) ==
    IF fields = PyNone \/ fields.items = <<>>
    THEN Ok(Absent)
    ELSE LET n == Len(fields.items)
             rs == [k \in 1..n |-> serialize_embed_field(fields.items[k], k - 1)]
             bad == {k \in 1..n : Failed(rs[k])}
         IN  IF bad # {}
             THEN rs[CHOOSE k \in bad : \A j \in bad : k <= j]
             ELSE Ok(PyList([k \in 1..n |-> rs[k].value]))

\* if x is not None: payload[key] = x
unless_none(x) == IF x = PyNone THEN Absent ELSE x

\* if not isinstance(holder.resource, files.WebResource):
\*     uploads.append(holder.resource)
uploads_of(holder) ==
    IF holder = PyNone \/ holder.attrs["resource"].t = "WebResource"
    THEN <<>>
    ELSE <<holder.attrs["resource"]>>

\* holder.url, the url of the resource it holds.
resource_url(holder) == holder.attrs["resource"].url

\* payload["footer"]
serialize_embed_footer(footer) ==
    IF footer = PyNone
    THEN Absent
    ELSE PyDict(Payload(
             [text |-> unless_none(footer.attrs["text"]),
              icon_url |-> IF footer.attrs["icon"] = PyNone
                           THEN Absent
                           ELSE resource_url(footer.attrs["icon"])]))

\* payload["image"] and payload["thumbnail"]
serialize_embed_image(image) ==
    IF image = PyNone THEN Absent ELSE PyDict([url |-> resource_url(image)])

\* payload["author"]
serialize_embed_author(author) ==
    IF author = PyNone
    THEN Absent
    ELSE PyDict(Payload(
             [name |-> unless_none(author.attrs["name"]),
              url |-> unless_none(author.attrs["url"]),
              icon_url |-> IF author.attrs["icon"] = PyNone
                           THEN Absent
                           ELSE resource_url(author.attrs["icon"])]))

\* The payload of an embed and the resources to upload with it, or the
\* TypeError of the first blank field.
serialize_embed(embed) ==
    LET e == embed.attrs
        field_payloads == serialize_embed_fields(e["fields"])
        uploads ==
            (IF e["footer"] = PyNone THEN <<>> ELSE uploads_of(e["footer"].attrs["icon"]))
                \o uploads_of(e["image"])
                \o uploads_of(e["thumbnail"])
                \o (IF e["author"] = PyNone
                    THEN <<>>
                    ELSE uploads_of(e["author"].attrs["icon"]))
    IN  IF Failed(field_payloads)
        THEN field_payloads
        ELSE Ok(PyTuple(
                 << PyDict(Payload(
                        [title |-> unless_none(e["title"]),
                         description |-> unless_none(e["description"]),
                         url |-> unless_none(e["url"]),
                         timestamp |-> IF e["timestamp"] = PyNone
                                       THEN Absent
                                       ELSE PyIsoStr(e["timestamp"].iso),
                         color |-> IF e["color"] = PyNone
                                   THEN Absent
                                   ELSE PyInt(e["color"].n),
                         footer |-> serialize_embed_footer(e["footer"]),
                         image |-> serialize_embed_image(e["image"]),
                         thumbnail |-> serialize_embed_image(e["thumbnail"]),
                         author |-> serialize_embed_author(e["author"]),
                         fields |-> field_payloads.value])),
                    PyList(uploads) >>))

\* files.ensure_resource(url): None stays None, a url is a WebResource.
files_ensure_resource(url) ==
    IF url = PyNone THEN PyNone ELSE [t |-> "WebResource", url |-> url]

\* color_models.Color(v): an int subclass, made as int(v) is.
color_Color(v) ==
    LET i == py_int(v)
    IN  IF Failed(i) THEN i ELSE Ok([t |-> "Color", n |-> i.value.n])

\* if holder_payload := payload.get(key): the nested payload, or None when
\* it is missing, null or empty.
payload_get_truthy(payload, key) ==
    LET v == payload_get(payload, key)
    IN  IF v = PyNone THEN PyNone
        ELSE IF v.t \in {"dict", "list"} /\ DOMAIN v.items = {} THEN PyNone
        ELSE v

\* embed_models.EmbedImage of payload["image"] or payload["thumbnail"]
deserialize_embed_image(payload, key) ==
    LET image_payload == payload_get_truthy(payload, key)
    IN  IF image_payload = PyNone
        THEN Ok(PyNone)
        ELSE Ok([t |-> "EmbedImage",
                 attrs |-> [resource |->
                                files_ensure_resource(payload_get(image_payload.items, "url")),
                            proxy_resource |->
                                files_ensure_resource(
                                    payload_get(image_payload.items, "proxy_url")),
                            height |-> payload_get(image_payload.items, "height"),
                            width |-> payload_get(image_payload.items, "width")]])

\* embed_models.EmbedVideo of payload["video"]
deserialize_embed_video(payload) ==
    LET video_payload == payload_get_truthy(payload, "video")
    IN  IF video_payload = PyNone
        THEN Ok(PyNone)
        ELSE Ok([t |-> "EmbedVideo",
                 attrs |-> [resource |->
                                files_ensure_resource(payload_get(video_payload.items, "url")),
                            height |-> payload_get(video_payload.items, "height"),
                            width |-> payload_get(video_payload.items, "width")]])

\* embed_models.EmbedProvider of payload["provider"]
deserialize_embed_provider(payload) ==
    LET provider_payload == payload_get_truthy(payload, "provider")
    IN  IF provider_payload = PyNone
        THEN Ok(PyNone)
        ELSE Ok([t |-> "EmbedProvider",
                 attrs |-> [name |-> payload_get(provider_payload.items, "name"),
                            url |-> payload_get(provider_payload.items, "url")]])

\* The icon of an author or a footer: None without "icon_url".
deserialize_embed_icon(holder_payload) ==
    IF Has(holder_payload, "icon_url")
    THEN [t |-> "EmbedResourceWithProxy",
          attrs |-> [resource |->
                         files_ensure_resource(payload_get(holder_payload, "icon_url")),
                     proxy_resource |->
                         files_ensure_resource(
                             payload_get(holder_payload, "proxy_icon_url"))]]
    ELSE PyNone

\* embed_models.EmbedAuthor of payload["author"]
deserialize_embed_author(payload) ==
    LET author_payload == payload_get_truthy(payload, "author")
    IN  IF author_payload = PyNone
        THEN Ok(PyNone)
        ELSE Ok([t |-> "EmbedAuthor",
                 attrs |-> [name |-> payload_get(author_payload.items, "name"),
                            url |-> payload_get(author_payload.items, "url"),
                            icon |-> deserialize_embed_icon(author_payload.items)]])

\* embed_models.EmbedFooter of payload["footer"]
deserialize_embed_footer(payload) ==
    LET footer_payload == payload_get_truthy(payload, "footer")
    IN  IF footer_payload = PyNone
        THEN Ok(PyNone)
        ELSE Ok([t |-> "EmbedFooter",
                 attrs |-> [text |-> payload_get(footer_payload.items, "text"),
                            icon |-> deserialize_embed_icon(footer_payload.items)]])

\* embed_models.EmbedField(name=field_payload["name"],
\*     value=field_payload["value"], inline=field_payload.get("inline", False))
deserialize_embed_field(field_payload) ==
    Build("EmbedField",
          << Field("name", payload_item(field_payload, "name")),
             Field("value", payload_item(field_payload, "value")),
             Field("is_inline",
                   Ok(IF Has(field_payload, "inline")
                      THEN field_payload["inline"]
                      ELSE PyBool(FALSE))) >>)

\* The fields of a received embed: None when the payload has none or an
\* empty list, else each one decoded in order.
deserialize_embed_fields(payload) ==
    LET fields_array == payload_get_truthy(payload, "fields")
    IN  IF fields_array = PyNone
        THEN Ok(PyNone)
        ELSE IF fields_array.t # "list"
        THEN Raise("TypeError")
        ELSE LET n == Len(fields_array.items)
                 rs == [k \in 1..n |->
                           IF fields_array.items[k].t = "dict"
                           THEN deserialize_embed_field(fields_array.items[k].items)
                           ELSE Raise("TypeError")]
                 bad == {k \in 1..n : Failed(rs[k])}
             IN  IF bad # {}
                 THEN rs[CHOOSE k \in bad : \A j \in bad : k <= j]
                 ELSE Ok(PyList([k \in 1..n |-> rs[k].value]))

\* The embed of a payload, its attributes computed in the source's order.
deserialize_embed(payload) ==
    Build("Embed",
          << Field("title", Ok(payload_get(payload, "title"))),
             Field("description", Ok(payload_get(payload, "description"))),
             Field("url", Ok(payload_get(payload, "url"))),
             Field("color",
                   IF Has(payload, "color")
                   THEN color_Color(payload["color"])
                   ELSE Ok(PyNone)),
             Field("timestamp",
                   IF Has(payload, "timestamp")
                   THEN iso8601_datetime_string_to_datetime(payload["timestamp"])
                   ELSE Ok(PyNone)),
             Field("image", deserialize_embed_image(payload, "image")),
             Field("thumbnail", deserialize_embed_image(payload, "thumbnail")),
             Field("video", deserialize_embed_video(payload)),
             Field("provider", deserialize_embed_provider(payload)),
             Field("author", deserialize_embed_author(payload)),
             Field("footer", deserialize_embed_footer(payload)),
             Field("fields", deserialize_embed_fields(payload)) >>)

\* [snowflake.Snowflake(x) for x in payload[key]]
snowflake_each(payload, key) ==
    IF ~Has(payload, key)
    THEN Raise("KeyError")
    ELSE IF payload[key].t # "list"
    THEN Raise("TypeError")
    ELSE LET n == Len(payload[key].items)
             rs == [i \in 1..n |-> snowflake_Snowflake(payload[key].items[i])]
             bad == {i \in 1..n : Failed(rs[i])}
         IN  IF bad # {}
             THEN rs[CHOOSE i \in bad : \A j \in bad : i <= j]
             ELSE Ok(PyList([i \in 1..n |-> rs[i].value]))

\* payload[key] if key in payload else undefined.UNDEFINED
item_or_undefined(payload, key) ==
    IF Has(payload, key) THEN payload[key] ELSE UNDEFINED

\* The member of a payload; user and guild_id, when they are given, are
\* taken in place of the payload's.
deserialize_member(payload, user, guild_id) ==
    Build("Member",
          << Field("user",
                   IF user # UNDEFINED
                   THEN Ok(user)
                   ELSE IF Has(payload, "user")
                   THEN decode_entity("UserImpl", payload["user"], UserKeys)
                   ELSE Raise("KeyError")),
             Field("guild_id",
                   IF guild_id = UNDEFINED
                   THEN IF Has(payload, "guild_id")
                        THEN snowflake_Snowflake(payload["guild_id"])
                        ELSE Raise("KeyError")
                   ELSE Ok(guild_id)),
             Field("role_ids", snowflake_each(payload, "roles")),
             Field("joined_at",
                   LET joined_at == payload_get(payload, "joined_at")
                   IN  IF joined_at # PyNone
                       THEN iso8601_datetime_string_to_datetime(joined_at)
                       ELSE Ok(UNDEFINED)),
             Field("nickname", Ok(item_or_undefined(payload, "nick"))),
             Field("premium_since",
                   IF Has(payload, "premium_since")
                   THEN IF payload["premium_since"] # PyNone
                        THEN iso8601_datetime_string_to_datetime(payload["premium_since"])
                        ELSE Ok(PyNone)
                   ELSE Ok(UNDEFINED)),
             Field("is_deaf", Ok(item_or_undefined(payload, "deaf"))),
             Field("is_mute", Ok(item_or_undefined(payload, "mute"))) >>)

\* The voice state of a payload; guild_id and member, when they are given,
\* are taken in place of the payload's.
deserialize_voice_state(payload, guild_id, member) ==
    LET voice_state_guild_id ==
            IF guild_id = UNDEFINED
            THEN IF Has(payload, "guild_id")
                 THEN snowflake_Snowflake(payload["guild_id"])
                 ELSE Raise("KeyError")
            ELSE Ok(guild_id)
    IN  Build("VoiceState",
              << Field("guild_id", voice_state_guild_id),
                 Field("channel_id", item_as_optional_snowflake(payload, "channel_id")),
                 Field("user_id",
                       IF Has(payload, "user_id")
                       THEN snowflake_Snowflake(payload["user_id"])
                       ELSE Raise("KeyError")),
                 Field("member",
                       IF member = UNDEFINED
                       THEN IF ~Has(payload, "member")
                            THEN Raise("KeyError")
                            ELSE IF payload["member"].t # "dict"
                            THEN Raise("TypeError")
                            ELSE deserialize_member(payload["member"].items, UNDEFINED,
                                                    voice_state_guild_id.value)
                       ELSE Ok(member)),
                 Field("session_id", payload_item(payload, "session_id")),
                 Field("is_guild_deafened", payload_item(payload, "deaf")),
                 Field("is_guild_muted", payload_item(payload, "mute")),
                 Field("is_self_deafened", payload_item(payload, "self_deaf")),
                 Field("is_self_muted", payload_item(payload, "self_mute")),
                 Field("is_streaming",
                       Ok(IF Has(payload, "self_stream")
                          THEN payload["self_stream"]
                          ELSE PyBool(FALSE))),
                 Field("is_video_enabled", payload_item(payload, "self_video")),
                 Field("is_suppressed", payload_item(payload, "suppress")) >>)

\* The keys that _set_partial_guild_attributes and _set_guild_attributes
\* read with payload[key].
GuildKeys ==
    {"id", "name", "icon", "features", "splash", "discovery_splash", "owner_id",
     "region", "afk_channel_id", "afk_timeout", "verification_level",
     "default_message_notifications", "explicit_content_filter", "mfa_level",
     "application_id", "system_channel_id", "system_channel_flags",
     "rules_channel_id", "vanity_url_code", "description", "banner",
     "premium_tier", "preferred_locale", "public_updates_channel_id"}

\* The keys deserialize_role and deserialize_known_custom_emoji read with
\* payload[key].
RoleKeys ==
    {"id", "name", "color", "hoist", "position", "permissions_new", "managed",
     "mentionable"}

EmojiKeys == {"id", "name", "require_colons", "managed", "available"}

\* The loop of an optional array of the guild payload: None without the key,
\* else each item decoded in order and kept under key_of it.
decoded_by(payload, key, decoded, key_of) ==
    IF ~Has(payload, key)
    THEN Ok(PyNone)
    ELSE IF payload[key].t # "list"
    THEN Raise("TypeError")
    ELSE LET n == Len(payload[key].items)
             bad == {i \in 1..n : Failed(decoded[i])}
         IN  IF bad # {}
             THEN decoded[CHOOSE i \in bad : \A j \in bad : i <= j]
             ELSE Ok(dict_of([i \in 1..n |-> key_of[i]],
                             [i \in 1..n |-> decoded[i].value]))

\* members[member.user.id] = self.deserialize_member(member_payload,
\*     guild_id=guild.id) for each member payload.
gateway_guild_members(payload, guild_id) ==
    LET items == IF Has(payload, "members") /\ payload["members"].t = "list"
                 THEN payload["members"].items
                 ELSE <<>>
        decoded == [i \in 1..Len(items) |->
                       IF items[i].t = "dict"
                       THEN deserialize_member(items[i].items, UNDEFINED, guild_id)
                       ELSE Raise("TypeError")]
    IN  decoded_by(payload, "members", decoded,
                   [i \in 1..Len(items) |-> decoded[i].value.attrs["user"].id])

\* channels[channel.id] = self.deserialize_channel(channel_payload,
\*     guild_id=guild.id) for each channel payload.
gateway_guild_channels(payload, guild_id) ==
    LET items == IF Has(payload, "channels") /\ payload["channels"].t = "list"
                 THEN payload["channels"].items
                 ELSE <<>>
        decoded == [i \in 1..Len(items) |->
                       IF items[i].t = "dict"
                       THEN deserialize_channel(items[i].items, guild_id)
                       ELSE Raise("TypeError")]
    IN  decoded_by(payload, "channels", decoded,
                   [i \in 1..Len(items) |-> decoded[i].value.attrs["id"]])

\* deserialize_member_presence, as far as its keys go: the user's id, and
\* the keys it reads with payload[key].
deserialize_member_presence(v, guild_id) ==
    IF v.t # "dict"
    THEN Raise("TypeError")
    ELSE IF ~Has(v.items, "user")
    THEN Raise("KeyError")
    ELSE LET user == decode_entity("User", v.items["user"], {"id"})
         IN  IF Failed(user)
             THEN user
             ELSE IF \E k \in {"status", "activities", "client_status"} :
                         ~Has(v.items, k)
             THEN Raise("KeyError")
             ELSE Ok([t |-> "MemberPresence", id |-> user.value.id,
                      payload |-> v.items])

\* presences[presence.user_id] = presence for each presence payload.
gateway_guild_presences(payload, guild_id) ==
    LET items == IF Has(payload, "presences") /\ payload["presences"].t = "list"
                 THEN payload["presences"].items
                 ELSE <<>>
        decoded == [i \in 1..Len(items) |->
                       deserialize_member_presence(items[i], guild_id)]
    IN  decoded_by(payload, "presences", decoded,
                   [i \in 1..Len(items) |-> decoded[i].value.id])

\* The same turn with the first member taken, whoever the voice state is of.
gateway_guild_voice_state_first_member(v, members, guild_id) ==
    IF v.t # "dict"
    THEN Raise("TypeError")
    ELSE IF ~Has(v.items, "user_id")
    THEN Raise("KeyError")
    ELSE IF members.order = <<>>
    THEN Raise("KeyError")
    ELSE deserialize_voice_state(v.items, guild_id, members.items[members.order[1]])

\* One turn of the loop over payload["voice_states"]: the member is looked
\* up by the voice state's user id before the voice state is decoded.
gateway_guild_voice_state(v, members, guild_id) ==
    IF v.t # "dict"
    THEN Raise("TypeError")
    ELSE IF ~Has(v.items, "user_id")
    THEN Raise("KeyError")
    ELSE LET user_id == snowflake_Snowflake(v.items["user_id"])
         IN  IF Failed(user_id)
             THEN user_id
             ELSE IF user_id.value \notin DOMAIN members.items
             THEN Raise("KeyError")
             ELSE deserialize_voice_state(v.items, guild_id,
                                          members.items[user_id.value])

\* voice_states[voice_state.user_id] = voice_state for each voice state
\* payload; the assert ends the call when there are no members. (Run with
\* asserts off, the lookup in None raises TypeError at the first voice state.)
gateway_guild_voice_states(payload, members, guild_id) ==
    IF ~Has(payload, "voice_states")
    THEN Ok(PyNone)
    ELSE IF members = PyNone
    THEN Raise("AssertionError")
    ELSE LET items == IF payload["voice_states"].t = "list"
                      THEN payload["voice_states"].items
                      ELSE <<>>
             decoded == [i \in 1..Len(items) |->
                            gateway_guild_voice_state(items[i], members, guild_id)]
         IN  decoded_by(payload, "voice_states", decoded,
                        [i \in 1..Len(items) |-> decoded[i].value.attrs["user_id"]])

\* The guild of a gateway payload and what came with it: the first step
\* that raises ends the call.
deserialize_gateway_guild(payload) ==
    LET guild == decode_entity("GatewayGuild", PyDict(payload), GuildKeys)
        guild_id == guild.value.id
        members == gateway_guild_members(payload, guild_id)
    IN  IF Failed(guild)
        THEN guild
        ELSE Build("GatewayGuildDefinition",
                   << Field("my_permissions",
                            IF Has(payload, "permissions")
                            THEN enum_of("Permission", payload["permissions"])
                            ELSE Ok(PyNone)),
                      Field("is_large", Ok(payload_get(payload, "large"))),
                      Field("joined_at",
                            IF Has(payload, "joined_at")
                            THEN iso8601_datetime_string_to_datetime(payload["joined_at"])
                            ELSE Ok(PyNone)),
                      Field("member_count",
                            IF Has(payload, "member_count")
                            THEN py_int(payload["member_count"])
                            ELSE Ok(PyNone)),
                      Field("guild", guild),
                      Field("members", members),
                      Field("channels", gateway_guild_channels(payload, guild_id)),
                      Field("presences", gateway_guild_presences(payload, guild_id)),
                      Field("voice_states",
                            IF Failed(members)
                            THEN members
                            ELSE gateway_guild_voice_states(payload, members.value,
                                                            guild_id)),
                      Field("roles",
                            IF Has(payload, "roles")
                            THEN decode_each_by_id("Role", payload["roles"], RoleKeys)
                            ELSE Raise("KeyError")),
                      Field("emojis",
                            IF Has(payload, "emojis")
                            THEN decode_each_by_id("KnownCustomEmoji", payload["emojis"],
                                                   EmojiKeys)
                            ELSE Raise("KeyError")) >>)

\* [snowflake.Snowflake(mention["id"]) for mention in v]
snowflake_of_each_id(v) ==
    LET each == decode_each("Mention", v, {"id"})
    IN  IF Failed(each)
        THEN each
        ELSE Ok(PyList([i \in 1..Len(each.value.items) |-> each.value.items[i].id]))

\* A nested payload that is read with item_payload[key] for each key of
\* required: the object made of it, or the KeyError of a missing key.
decode_part(cls, v, required) ==
    IF v.t # "dict"
    THEN Raise("TypeError")
    ELSE IF \E k \in required : ~Has(v.items, k)
    THEN Raise("KeyError")
    ELSE Ok([t |-> cls, payload |-> v.items])

\* Each item of a list decoded as decode_part does, in order.
decode_each_part(cls, v, required) ==
    IF v.t # "list"
    THEN Raise("TypeError")
    ELSE LET rs == [i \in 1..Len(v.items) |-> decode_part(cls, v.items[i], required)]
             bad == {i \in 1..Len(v.items) : Failed(rs[i])}
         IN  IF bad # {}
             THEN rs[CHOOSE i \in bad : \A j \in bad : i <= j]
             ELSE Ok(PyList([i \in 1..Len(v.items) |-> rs[i].value]))

\* [self.deserialize_embed(embed) for embed in payload["embeds"]]
message_embeds(payload) ==
    IF ~Has(payload, "embeds")
    THEN Raise("KeyError")
    ELSE IF payload["embeds"].t # "list"
    THEN Raise("TypeError")
    ELSE LET items == payload["embeds"].items
             rs == [i \in 1..Len(items) |->
                       IF items[i].t = "dict"
                       THEN deserialize_embed(items[i].items)
                       ELSE Raise("TypeError")]
             bad == {i \in 1..Len(items) : Failed(rs[i])}
         IN  IF bad # {}
             THEN rs[CHOOSE i \in bad : \A j \in bad : i <= j]
             ELSE Ok(PyList([i \in 1..Len(items) |-> rs[i].value]))

\* The message of a payload, its attributes computed in the source's order.
deserialize_message(payload) ==
    LET guild_id == IF Has(payload, "guild_id")
                    THEN snowflake_Snowflake(payload["guild_id"])
                    ELSE Ok(PyNone)
        author == IF Has(payload, "author")
                  THEN decode_entity("UserImpl", payload["author"], UserKeys)
                  ELSE Raise("KeyError")
    IN  Build("Message",
              << Field("id", item_as(payload, "id", "snowflake.Snowflake")),
                 Field("channel_id", item_as(payload, "channel_id", "snowflake.Snowflake")),
                 Field("guild_id", guild_id),
                 Field("author", author),
                 Field("member",
                       IF Has(payload, "member")
                       THEN IF payload["member"].t = "dict"
                            THEN deserialize_member(payload["member"].items, author.value,
                                                    guild_id.value)
                            ELSE Raise("TypeError")
                       ELSE Ok(PyNone)),
                 Field("content", payload_item(payload, "content")),
                 Field("timestamp",
                       item_as(payload, "timestamp",
                               "date.iso8601_datetime_string_to_datetime")),
                 Field("edited_timestamp",
                       IF ~Has(payload, "edited_timestamp")
                       THEN Raise("KeyError")
                       ELSE IF payload["edited_timestamp"] = PyNone
                       THEN Ok(PyNone)
                       ELSE iso8601_datetime_string_to_datetime(payload["edited_timestamp"])),
                 Field("is_tts", payload_item(payload, "tts")),
                 Field("is_mentioning_everyone", payload_item(payload, "mention_everyone")),
                 Field("user_mentions",
                       IF Has(payload, "mentions")
                       THEN snowflake_of_each_id(payload["mentions"])
                       ELSE Raise("KeyError")),
                 Field("role_mentions", snowflake_each(payload, "mention_roles")),
                 Field("channel_mentions",
                       IF Has(payload, "mention_channels")
                       THEN snowflake_of_each_id(payload["mention_channels"])
                       ELSE Ok(PyList(<<>>))),
                 Field("attachments",
                       IF Has(payload, "attachments")
                       THEN decode_each("Attachment", payload["attachments"],
                                        {"id", "filename", "size", "url", "proxy_url"})
                       ELSE Raise("KeyError")),
                 Field("embeds", message_embeds(payload)),
                 Field("reactions",
                       IF Has(payload, "reactions")
                       THEN decode_each_part("Reaction", payload["reactions"],
                                             {"count", "emoji", "me"})
                       ELSE Ok(PyList(<<>>))),
                 Field("is_pinned", payload_item(payload, "pinned")),
                 Field("webhook_id",
                       IF Has(payload, "webhook_id")
                       THEN snowflake_Snowflake(payload["webhook_id"])
                       ELSE Ok(PyNone)),
                 Field("type",
                       IF Has(payload, "type")
                       THEN enum_of("MessageType", payload["type"])
                       ELSE Raise("KeyError")),
                 Field("activity",
                       IF Has(payload, "activity")
                       THEN decode_part("MessageActivity", payload["activity"], {"type"})
                       ELSE Ok(PyNone)),
                 Field("application",
                       IF Has(payload, "application")
                       THEN decode_entity("Application", payload["application"],
                                          {"id", "name", "description", "summary"})
                       ELSE Ok(PyNone)),
                 Field("message_reference",
                       IF Has(payload, "message_reference")
                       THEN decode_part("MessageCrosspost", payload["message_reference"],
                                        {"channel_id"})
                       ELSE Ok(PyNone)),
                 Field("flags",
                       IF Has(payload, "flags")
                       THEN enum_of("MessageFlag", payload["flags"])
                       ELSE Ok(PyNone)),
                 Field("nonce", Ok(payload_get(payload, "nonce"))) >>)

----------------------------------------------------------------------------
(* SpecFactory: one entity factory, called with any of the payloads below;  *)
(* each call returns before the next one starts.                            *)

\* A call of op on payload came back with result.
Call(op, payload, guild_id, result) ==
    /\ fcall.op = "none"
    /\ fcall' = FactoryCall(op, PyDict(payload), guild_id, result)
    /\ UNCHANGED mapVars
    /\ UNCHANGED setVars
    /\ UNCHANGED builder

\* The caller has taken the result.
Return ==
    /\ fcall.op # "none"
    /\ fcall' = FactoryCall("none", PyNone, UNDEFINED, PyNone)
    /\ UNCHANGED mapVars
    /\ UNCHANGED setVars
    /\ UNCHANGED builder

\* The call in progress is op, and it returned a value.
Returned(op) == fcall.op = op /\ ~Failed(fcall.result)

\* The payload of the call in progress has key, and it is an int.
GivenInt(key) ==
    /\ Has(fcall.payload.items, key)
    /\ fcall.payload.items[key].t = "int"

MaxUsesValues == {Absent, PyNumStr(0)} \cup {PyInt(n) : n \in 0..MaxUses}

MaxAgeValues ==
    {Absent, PyNone}
        \cup {PyInt(n) : n \in (0 - 1)..MaxAge}
        \cup {PyInt(SecondsPerDay + n) : n \in (0 - 1)..1}

InvitePayloads ==
    {Payload(c) : c \in
        [code : {PyStr("hikari"), Absent},
         guild_id : {PyNumStr(1), Absent},
         channel : {PyDict([id |-> PyNumStr(2), type |-> PyInt(0)]), Absent},
         channel_id : {PyNumStr(2), Absent},
         uses : {PyInt(1)},
         max_uses : MaxUsesValues,
         max_age : MaxAgeValues,
         temporary : {PyBool(FALSE)},
         created_at : {PyIsoStr("2020-05-01T12:00:00+00:00"), Absent}]}

\* A snowflake as a caller passes it.
SnowflakeValue(n) == [t |-> "Snowflake", n |-> n]

\* What a caller passes as guild_id, and what a payload has under it.
GuildIdArguments == {UNDEFINED, SnowflakeValue(1), SnowflakeValue(3)}

GuildIdValues == {Absent, PyNumStr(1), PyNumStr(2)}

UserPayload ==
    PyDict([id |-> PyNumStr(8), discriminator |-> PyStr("0001"),
            username |-> PyStr("nekokatt"), avatar |-> PyNone])

OverwritePayload ==
    PyDict([id |-> PyNumStr(4), type |-> PyStr("role"),
            allow_new |-> PyNumStr(0), deny_new |-> PyNumStr(0)])

\* Channel payloads of every type up to MaxChannelType, the last of which
\* no mapping has, with and without the keys the claims turn on.
ChannelPayloads ==
    {Payload(c) : c \in
        [id : {PyNumStr(5), Absent},
         type : {Absent, PyNumStr(0)} \cup {PyInt(n) : n \in 0..MaxChannelType},
         name : {PyStr("general")},
         guild_id : GuildIdValues,
         position : {PyInt(0), Absent},
         permission_overwrites : {PyList(<<>>), PyList(<<OverwritePayload>>)},
         topic : {PyNone},
         last_message_id : {PyNone},
         bitrate : {PyInt(64000)},
         user_limit : {PyInt(0)},
         owner_id : {PyNumStr(8)},
         icon : {PyNone},
         recipients : {PyList(<<UserPayload>>)}]}

RolePayload == PyDict([id |-> PyNumStr(4), name |-> PyStr("mods")])

\* The keys of the changes enumerated: keys with each kind of converter, a
\* member the converter table leaves out, and keys that are no member.
ChangeKeys ==
    {Absent, PyInt(5), PyStr("$future"), PyStr("name"), PyStr("owner_id"),
     PyStr("afk_timeout"), PyStr("prune_delete_days"), PyStr("position"),
     PyStr("max_uses"), PyStr("max_age"), PyStr("type"),
     PyStr("enable_emoticons"), PyStr("mfa_level"), PyStr("$add")}

ChangeValues ==
    {Absent, PyNone, PyStr("text"), PyNumStr(7), PyList(<<RolePayload>>)}
        \cup {PyInt(n) : n \in 0..MaxChangeValue}

ChangePayloads ==
    {Payload(c) : c \in
        [key : ChangeKeys, new_value : ChangeValues, old_value : ChangeValues]}

\* A few changes to put next to another one.
SomeChanges ==
    {[key |-> PyStr("owner_id"), new_value |-> PyNumStr(7)],
     [key |-> PyStr("$future"), old_value |-> PyInt(0)],
     [key |-> PyStr("position"), new_value |-> PyStr("text")]}

ChangeLists ==
    {Absent, PyNone, PyList(<<>>)}
        \cup {PyList(<<PyDict(c)>>) : c \in ChangePayloads}
        \cup {PyList(<<PyDict(c), PyDict(d)>>) : c \in SomeChanges, d \in SomeChanges}

\* The action types enumerated: every member's number, numbers no member
\* has, and a str.
ActionTypes ==
    {Absent, PyNumStr(72)}
        \cup {PyInt(AuditLogEventType[name]) : name \in DOMAIN AuditLogEventType}
        \cup {PyInt(1000 + n) : n \in 0..MaxUnknownActionType}

OptionValues ==
    {Absent, PyNone, PyDict(<<>>), PyStr("text"),
     PyDict([count |-> PyNumStr(3), channel_id |-> PyNumStr(6),
             message_id |-> PyNumStr(9)]),
     PyDict([id |-> PyNumStr(4), type |-> PyStr("role"),
             role_name |-> PyStr("mods")]),
     PyDict([delete_member_days |-> PyNumStr(7), members_removed |-> PyInt(2)])}

\* Entries that differ in their changes.
EntryPayloadsByChanges ==
    {Payload(c) : c \in
        [id : {PyNumStr(11)},
         target_id : {PyNone},
         changes : ChangeLists,
         user_id : {PyNumStr(8)},
         action_type : {PyInt(AuditLogEventType.GUILD_UPDATE)},
         reason : {PyNone}]}

\* Entries that differ in their action type and options.
EntryPayloadsByAction ==
    {Payload(c) : c \in
        [id : {PyNumStr(11), Absent},
         target_id : {PyNumStr(5), Absent},
         user_id : {PyNone},
         action_type : ActionTypes,
         options : OptionValues]}

\* A few entries to put next to another one.
SomeEntries ==
    {[id |-> PyNumStr(12), target_id |-> PyNone, user_id |-> PyNone,
      action_type |-> PyInt(1000), options |-> PyDict([count |-> PyNumStr(3)])],
     [id |-> PyNumStr(13), target_id |-> PyNone, user_id |-> PyNone,
      action_type |-> PyInt(AuditLogEventType.MEMBER_DISCONNECT),
      options |-> PyDict([count |-> PyNumStr(3)])],
     [id |-> PyNumStr(14), target_id |-> PyNone, user_id |-> PyNone,
      action_type |-> PyInt(AuditLogEventType.MEMBER_DISCONNECT),
      options |-> PyDict(<<>>)],
     [id |-> PyNumStr(12), target_id |-> PyNone, user_id |-> PyNone,
      action_type |-> PyInt(AuditLogEventType.MESSAGE_PIN),
      options |-> PyDict([channel_id |-> PyNumStr(6), message_id |-> PyNumStr(9)])]}

EntryLists ==
    {PyList(<<>>)}
        \cup {PyList(<<PyDict(entry)>>) :
                 entry \in EntryPayloadsByChanges \cup EntryPayloadsByAction}
        \cup {PyList(<<PyDict(a), PyDict(b)>>) : a \in SomeEntries, b \in SomeEntries}

AuditLogPayloads ==
    {Payload(c) : c \in
        [audit_log_entries : EntryLists,
         integrations : {PyList(<<>>)},
         users : {PyList(<<UserPayload>>)},
         webhooks : {PyList(<<>>)}]}
        \cup {Payload(c) : c \in
                [audit_log_entries : {Absent, PyList(<<>>)},
                 integrations : {Absent, PyList(<<>>)},
                 users : {PyList(<<>>), PyList(<<PyDict([id |-> PyNumStr(8)])>>)},
                 webhooks : {Absent, PyList(<<>>)}]}

DeserializeAuditLog(payload) ==
    Call("deserialize_audit_log", payload, UNDEFINED, deserialize_audit_log(payload))

DeserializeChannel(payload, guild_id) ==
    Call("deserialize_channel", payload, guild_id,
         deserialize_channel(payload, guild_id))

DeserializeInviteWithMetadata(payload) ==
    Call("deserialize_invite_with_metadata", payload, UNDEFINED,
         deserialize_invite_with_metadata(payload))

\* Names and values of embed fields: none, empty, whitespace only, text
\* with and without whitespace around it, and an int.
FieldTexts ==
    {PyNone, PyText(<<>>), PyText(<<" ", "\t">>), PyText(<<"a">>),
     PyText(<<" ", "a", "\n">>), PyInt(0)}

EmbedField(name, value, inline) ==
    [t |-> "EmbedField",
     attrs |-> [name |-> name, value |-> value, is_inline |-> PyBool(inline)]]

EmbedFields == {EmbedField(name, value, FALSE) : name, value \in FieldTexts}

FieldLists ==
    {PyNone} \cup {PyList(fields) :
                      fields \in UNION {[1..n -> EmbedFields] : n \in 0..MaxFields}}

\* Resources an embed holds: one on the web, one to upload.
WebIcon ==
    [t |-> "EmbedResourceWithProxy",
     attrs |-> [resource |-> [t |-> "WebResource", url |-> PyStr("https://cdn/icon")],
                proxy_resource |-> PyNone]]

FileIcon ==
    [t |-> "EmbedResourceWithProxy",
     attrs |-> [resource |-> [t |-> "File", url |-> PyStr("attachment://icon")],
                proxy_resource |-> PyNone]]

\* Embeds that differ in their fields.
EmbedsByFields ==
    {[t |-> "Embed",
      attrs |-> [title |-> PyStr("text"), description |-> PyNone, url |-> PyNone,
                 timestamp |-> PyNone, color |-> PyNone, footer |-> PyNone,
                 image |-> PyNone, thumbnail |-> PyNone, author |-> PyNone,
                 fields |-> fields]] : fields \in FieldLists}

\* Embeds that differ in the rest.
EmbedsByRest ==
    {[t |-> "Embed", attrs |-> attrs] : attrs \in
        [title : {PyNone, PyStr("text")},
         description : {PyStr("text")},
         url : {PyNone},
         timestamp : {PyNone, [t |-> "datetime", iso |-> "2020-05-01T12:00:00+00:00"]},
         color : {PyNone, [t |-> "Color", n |-> 5]},
         footer : {PyNone,
                   [t |-> "EmbedFooter", attrs |-> [text |-> PyStr("text"), icon |-> FileIcon]],
                   [t |-> "EmbedFooter", attrs |-> [text |-> PyNone, icon |-> PyNone]]},
         image : {PyNone, WebIcon, FileIcon},
         thumbnail : {PyNone, FileIcon},
         author : {PyNone,
                   [t |-> "EmbedAuthor",
                    attrs |-> [name |-> PyStr("text"), url |-> PyNone, icon |-> WebIcon]]},
         fields : {PyList(<<>>),
                   PyList(<<EmbedField(PyText(<<"a">>), PyText(<<"b">>), TRUE)>>),
                   PyList(<<EmbedField(PyText(<<"a">>), PyText(<<"b">>), TRUE),
                            EmbedField(PyText(<<"a">>), PyText(<<" ">>), FALSE)>>)}]}

\* Field payloads of a received embed.
FieldPayloads ==
    {PyDict(Payload(c)) : c \in
        [name : {Absent} \cup FieldTexts,
         value : {Absent} \cup FieldTexts,
         inline : {Absent, PyBool(TRUE)}]}

\* A few field payloads to put next to another one.
SomeFieldPayloads ==
    {PyDict([name |-> PyText(<<"a">>), value |-> PyText(<<"b">>)]),
     PyDict([name |-> PyText(<<" ">>), value |-> PyText(<<>>)]),
     PyDict([name |-> PyText(<<"a">>)])}

ReceivedFieldLists ==
    {Absent, PyNone, PyList(<<>>), PyStr("text")}
        \cup {PyList(<<field>>) : field \in FieldPayloads}
        \cup {PyList(<<a, b>>) : a \in SomeFieldPayloads, b \in SomeFieldPayloads}

\* Payloads of received embeds that differ in their fields, and in the rest.
EmbedPayloadsByFields ==
    {Payload(c) : c \in [title : {PyStr("text")}, fields : ReceivedFieldLists]}

EmbedPayloadsByRest ==
    {Payload(c) : c \in
        [title : {Absent, PyStr("text")},
         color : {Absent, PyInt(5), PyStr("text")},
         timestamp : {Absent, PyIsoStr("2020-05-01T12:00:00+00:00")},
         image : {Absent, PyDict(<<>>), PyDict([url |-> PyStr("https://cdn/image")])},
         thumbnail : {Absent,
                      PyDict([url |-> PyStr("https://cdn/image"),
                              proxy_url |-> PyStr("https://proxy/image")])},
         video : {Absent, PyDict([url |-> PyStr("https://cdn/video")])},
         provider : {Absent, PyDict([name |-> PyStr("text")])},
         author : {Absent,
                   PyDict([name |-> PyStr("text")]),
                   PyDict([name |-> PyStr("text"),
                           icon_url |-> PyStr("https://cdn/icon")])},
         footer : {Absent,
                   PyDict([text |-> PyStr("text"),
                           icon_url |-> PyStr("https://cdn/icon")])},
         fields : {PyList(<<PyDict([name |-> PyText(<<" ">>),
                                    value |-> PyText(<<"b">>)])>>)}]}

DeserializeEmbed(payload) ==
    Call("deserialize_embed", payload, UNDEFINED, deserialize_embed(payload))

\* A call of serialize_embed on embed came back with result.
SerializeEmbed(embed) ==
    /\ fcall.op = "none"
    /\ fcall' = FactoryCall("serialize_embed", embed, UNDEFINED, serialize_embed(embed))
    /\ UNCHANGED mapVars
    /\ UNCHANGED setVars
    /\ UNCHANGED builder

InitFactory == NoMap /\ NoSet /\ NoCall

NextFactory ==
    \/ \E payload \in AuditLogPayloads : DeserializeAuditLog(payload)
    \/ \E payload \in InvitePayloads : DeserializeInviteWithMetadata(payload)
    \/ \E payload \in ChannelPayloads, guild_id \in GuildIdArguments :
          DeserializeChannel(payload, guild_id)
    \/ \E payload \in EmbedPayloadsByFields \cup EmbedPayloadsByRest :
          DeserializeEmbed(payload)
    \/ \E embed \in EmbedsByFields \cup EmbedsByRest : SerializeEmbed(embed)
    \/ Return

SpecFactory == InitFactory /\ [][NextFactory]_vars

----------------------------------------------------------------------------
(* SpecRoundTrip: an embed is decoded from a payload, encoded again, and    *)
(* the payload that comes out is decoded in turn.                           *)

\* Payloads of received embeds that differ in their text, colour, time and
\* fields, the fields with names and values that are not blank.
EmbedPayloadsByText ==
    {Payload(c) : c \in
        [title : {Absent, PyNone, PyStr("text")},
         description : {Absent, PyStr("")},
         url : {Absent, PyStr("https://site")},
         color : {Absent, PyInt(5), PyNumStr(5)},
         timestamp : {Absent,
                      PyIsoStr("2020-05-01T12:00:00+00:00"),
                      PyIsoStr("2020-05-01T12:00:00.000000+00:00")},
         fields : {Absent,
                   PyList(<<>>),
                   PyList(<<PyDict([name |-> PyText(<<"a">>),
                                    value |-> PyText(<<"b">>)])>>),
                   PyList(<<PyDict([name |-> PyText(<<"a">>),
                                    value |-> PyText(<<"b">>),
                                    inline |-> PyBool(TRUE)]),
                            PyDict([name |-> PyText(<<" ", "a">>),
                                    value |-> PyText(<<"a">>),
                                    inline |-> PyBool(FALSE)])>>)}]}

\* serialize_embed called on the embed that deserialize_embed returned.
ReserializeEmbed ==
    /\ Returned("deserialize_embed")
    /\ fcall' = FactoryCall("serialize_embed", fcall.result.value, UNDEFINED,
                            serialize_embed(fcall.result.value))
    /\ UNCHANGED mapVars
    /\ UNCHANGED setVars
    /\ UNCHANGED builder

\* deserialize_embed called on the payload that serialize_embed returned.
RedeserializeEmbed ==
    /\ Returned("serialize_embed")
    /\ LET payload == fcall.result.value.items[1]
       IN  fcall' = FactoryCall("deserialize_embed", payload, UNDEFINED,
                                deserialize_embed(payload.items))
    /\ UNCHANGED mapVars
    /\ UNCHANGED setVars
    /\ UNCHANGED builder

InitRoundTrip == NoMap /\ NoSet /\ NoCall

NextRoundTrip ==
    \/ \E payload \in EmbedPayloadsByFields \cup EmbedPayloadsByText :
          DeserializeEmbed(payload)
    \/ ReserializeEmbed
    \/ RedeserializeEmbed
    \/ Return

SpecRoundTrip == InitRoundTrip /\ [][NextRoundTrip]_vars

----------------------------------------------------------------------------
(* SpecGuild: the entity factory called on the members of a guild.          *)

\* What a caller passes as user: nothing, or a user it has decoded.
UserArguments ==
    {UNDEFINED, decode_entity("UserImpl", UserPayload, UserKeys).value}

\* Member payloads; each of joined_at, nick and premium_since is left out,
\* null or given.
MemberPayloads ==
    {Payload(c) : c \in
        [user : {Absent, UserPayload},
         guild_id : {Absent, PyNumStr(2)},
         roles : {Absent, PyList(<<>>), PyList(<<PyNumStr(4)>>)},
         joined_at : {Absent, PyNone, PyIsoStr("2020-05-01T12:00:00+00:00")},
         nick : {Absent, PyNone, PyStr("nick")},
         premium_since : {Absent, PyNone, PyIsoStr("2020-05-01T12:00:00+00:00")},
         deaf : {Absent, PyBool(TRUE)},
         mute : {PyBool(FALSE)}]}

DeserializeMember(payload, user, guild_id) ==
    Call("deserialize_member", payload, guild_id,
         deserialize_member(payload, user, guild_id))

\* The payload of the member that user n is in a guild payload.
GuildMemberPayload(n, nick) ==
    PyDict([user |-> PyDict([id |-> PyNumStr(n), discriminator |-> PyStr("0001"),
                             username |-> PyStr("nekokatt"), avatar |-> PyNone]),
            roles |-> PyList(<<>>), nick |-> nick, mute |-> PyBool(FALSE)])

\* The payload of the voice state of user n, as a guild payload has it.
GuildVoiceStatePayload(n) ==
    [channel_id |-> PyNumStr(6), user_id |-> PyNumStr(n), session_id |-> PyStr("s"),
     deaf |-> PyBool(FALSE), mute |-> PyBool(FALSE), self_deaf |-> PyBool(FALSE),
     self_mute |-> PyBool(TRUE), self_video |-> PyBool(FALSE),
     suppress |-> PyBool(FALSE)]

\* What a caller passes as member: nothing, or a member it has decoded.
MemberArguments ==
    {UNDEFINED,
     deserialize_member(GuildMemberPayload(8, PyNone).items, UNDEFINED,
                        SnowflakeValue(1)).value}

\* Voice state payloads that differ in what they leave out.
VoiceStatePayloads ==
    {Payload(c) : c \in
        [guild_id : {Absent, PyNumStr(2)},
         channel_id : {Absent, PyNone, PyNumStr(6)},
         user_id : {Absent, PyNumStr(8)},
         member : {Absent, GuildMemberPayload(8, PyNone), PyDict(<<>>)},
         session_id : {Absent, PyStr("s")},
         deaf : {PyBool(FALSE)},
         mute : {PyBool(FALSE)},
         self_deaf : {PyBool(FALSE)},
         self_mute : {PyBool(TRUE)},
         self_stream : {Absent, PyBool(TRUE)},
         self_video : {PyBool(FALSE)},
         suppress : {Absent, PyBool(FALSE)}]}

DeserializeVoiceState(payload, guild_id, member) ==
    Call("deserialize_voice_state", payload, guild_id,
         deserialize_voice_state(payload, guild_id, member))

\* What a guild payload may have under members and under voice_states.
GuildMemberLists ==
    {Absent, PyList(<<>>),
     PyList(<<GuildMemberPayload(8, PyNone)>>),
     PyList(<<GuildMemberPayload(8, PyNone), GuildMemberPayload(9, PyNone)>>),
     PyList(<<GuildMemberPayload(9, PyNone), GuildMemberPayload(8, PyNone)>>),
     PyList(<<GuildMemberPayload(8, PyNone), GuildMemberPayload(8, PyStr("nick"))>>),
     PyList(<<PyDict([roles |-> PyList(<<>>), mute |-> PyBool(FALSE)])>>)}

GuildVoiceStateLists ==
    {Absent, PyList(<<>>),
     PyList(<<PyDict(GuildVoiceStatePayload(8))>>),
     PyList(<<PyDict(GuildVoiceStatePayload(9))>>),
     PyList(<<PyDict(GuildVoiceStatePayload(9)), PyDict(GuildVoiceStatePayload(8))>>),
     PyList(<<PyDict(WithKey(GuildVoiceStatePayload(8), "session_id", Absent))>>),
     PyList(<<PyDict(WithKey(GuildVoiceStatePayload(8), "user_id", Absent))>>)}

\* Guild payloads: every key of GuildKeys, then what varies.
GuildPayloads ==
    {[k \in (GuildKeys \cup {key \in DOMAIN c : c[key] # Absent})
             \ {key \in DOMAIN c : c[key] = Absent} |->
         IF k \in DOMAIN c THEN c[k]
         ELSE IF k = "id" THEN PyNumStr(1)
         ELSE PyNone] : c \in
        [name : {Absent, PyStr("guild")},
         joined_at : {Absent, PyIsoStr("2020-05-01T12:00:00+00:00")},
         members : GuildMemberLists,
         channels : {Absent,
                     PyList(<<PyDict([id |-> PyNumStr(5), type |-> PyInt(0),
                                      name |-> PyStr("general"), position |-> PyInt(0),
                                      permission_overwrites |-> PyList(<<>>),
                                      topic |-> PyNone,
                                      last_message_id |-> PyNone])>>)},
         presences : {Absent,
                      PyList(<<PyDict([user |-> PyDict([id |-> PyNumStr(8)]),
                                       status |-> PyStr("online"),
                                       activities |-> PyList(<<>>),
                                       client_status |-> PyDict(<<>>)])>>),
                      PyList(<<PyDict([user |-> PyDict([id |-> PyNumStr(8)])])>>)},
         voice_states : GuildVoiceStateLists,
         roles : {Absent,
                  PyList(<<PyDict([id |-> PyNumStr(4), name |-> PyStr("mods"),
                                   color |-> PyInt(0), hoist |-> PyBool(FALSE),
                                   position |-> PyInt(1),
                                   permissions_new |-> PyNumStr(0),
                                   managed |-> PyBool(FALSE),
                                   mentionable |-> PyBool(TRUE)])>>)},
         emojis : {PyList(<<>>)}]}

DeserializeGatewayGuild(payload) ==
    Call("deserialize_gateway_guild", payload, UNDEFINED,
         deserialize_gateway_guild(payload))

InitGuild == NoMap /\ NoSet /\ NoCall

NextGuild ==
    \/ \E payload \in MemberPayloads, user \in UserArguments,
            guild_id \in GuildIdArguments :
          DeserializeMember(payload, user, guild_id)
    \/ \E payload \in VoiceStatePayloads, guild_id \in GuildIdArguments,
            member \in MemberArguments :
          DeserializeVoiceState(payload, guild_id, member)
    \/ \E payload \in GuildPayloads : DeserializeGatewayGuild(payload)
    \/ Return

SpecGuild == InitGuild /\ [][NextGuild]_vars

----------------------------------------------------------------------------
(* SpecMessage: the entity factory called on message payloads that leave    *)
(* keys out.                                                                *)

\* The keys deserialize_message reads with payload[key], and those it looks
\* for before it reads them.
RequiredMessageKeys ==
    {"id", "channel_id", "author", "content", "timestamp", "edited_timestamp",
     "tts", "mention_everyone", "mentions", "mention_roles", "attachments",
     "embeds", "pinned", "type"}

OptionalMessageKeys ==
    {"guild_id", "member", "mention_channels", "reactions", "webhook_id",
     "activity", "application", "message_reference", "flags", "nonce"}

\* A message payload that has every key.
FullMessagePayload ==
    [id |-> PyNumStr(7), channel_id |-> PyNumStr(6), guild_id |-> PyNumStr(1),
     author |-> UserPayload,
     member |-> PyDict([roles |-> PyList(<<PyNumStr(4)>>), nick |-> PyNone,
                        joined_at |-> PyIsoStr("2020-05-01T12:00:00+00:00"),
                        mute |-> PyBool(FALSE)]),
     content |-> PyStr("text"),
     timestamp |-> PyIsoStr("2020-05-01T12:00:00+00:00"),
     edited_timestamp |-> PyNone,
     tts |-> PyBool(FALSE), mention_everyone |-> PyBool(FALSE),
     mentions |-> PyList(<<PyDict([id |-> PyNumStr(8)])>>),
     mention_roles |-> PyList(<<PyNumStr(4)>>),
     mention_channels |-> PyList(<<PyDict([id |-> PyNumStr(5)])>>),
     attachments |-> PyList(<<PyDict([id |-> PyNumStr(3), filename |-> PyStr("text"),
                                      size |-> PyInt(5), url |-> PyStr("https://cdn/image"),
                                      proxy_url |-> PyStr("https://proxy/image")])>>),
     embeds |-> PyList(<<PyDict([title |-> PyStr("text")])>>),
     reactions |-> PyList(<<PyDict([count |-> PyInt(1), me |-> PyBool(TRUE),
                                    emoji |-> PyDict([id |-> PyNone,
                                                      name |-> PyStr("text")])])>>),
     pinned |-> PyBool(TRUE), webhook_id |-> PyNumStr(9), type |-> PyInt(0),
     activity |-> PyDict([type |-> PyInt(5)]),
     application |-> PyDict([id |-> PyNumStr(2), name |-> PyStr("text"),
                             description |-> PyStr("text"), summary |-> PyStr("")]),
     message_reference |-> PyDict([channel_id |-> PyNumStr(6)]),
     flags |-> PyInt(0), nonce |-> PyStr("text")]

\* payload without the keys of missing.
LeavingOut(payload, missing) == [k \in DOMAIN payload \ missing |-> payload[k]]

\* Message payloads that leave out no key, one key or two keys, with every
\* optional key or with none.
MessagePayloads ==
    {LeavingOut(FullMessagePayload, {a, b}) :
        a, b \in RequiredMessageKeys \cup OptionalMessageKeys}
        \cup {LeavingOut(FullMessagePayload, OptionalMessageKeys \cup {a, b}) :
                  a, b \in RequiredMessageKeys}
        \cup {FullMessagePayload, LeavingOut(FullMessagePayload, OptionalMessageKeys)}

DeserializeMessage(payload) ==
    Call("deserialize_message", payload, UNDEFINED, deserialize_message(payload))

InitMessage == NoMap /\ NoSet /\ NoCall

NextMessage ==
    \/ \E payload \in MessagePayloads : DeserializeMessage(payload)
    \/ Return

SpecMessage == InitMessage /\ [][NextMessage]_vars

----------------------------------------------------------------------------
(* The guild builder (hikari/api/special_endpoints.py declares add_role and *)
(* documents what it raises) and SpecBuilder: one builder, roles added to   *)
(* it one call after another.                                               *)

\* The name of the default role.
Everyone == "@everyone"

\* The keyword arguments of add_role that the default role may not have.
Restricted == {"color", "colour", "hoist", "mentionable", "position"}

\* add_role that takes any first role.
add_role_any_first(roles, name, options) ==
    IF options["color"] # UNDEFINED /\ options["colour"] # UNDEFINED
    THEN [roles |-> roles, result |-> Raise("TypeError")]
    ELSE IF roles # <<>> /\ name = Everyone
    THEN [roles |-> roles, result |-> Raise("ValueError")]
    ELSE [roles |-> Append(roles, [name |-> name, options |-> options]),
          result |-> Ok(SnowflakeValue(Len(roles)))]

\* add_role(name, **options) on a builder that holds roles: the roles it
\* holds afterwards and the placeholder id it returns, or what it raises.
add_role(roles, name, options) ==
    IF options["color"] # UNDEFINED /\ options["colour"] # UNDEFINED
    THEN [roles |-> roles, result |-> Raise("TypeError")]
    ELSE IF roles = <<>> /\ name # Everyone
    THEN [roles |-> roles, result |-> Raise("ValueError")]
    ELSE IF roles = <<>> /\ \E k \in Restricted : options[k] # UNDEFINED
    THEN [roles |-> roles, result |-> Raise("TypeError")]
    ELSE IF roles # <<>> /\ name = Everyone
    THEN [roles |-> roles, result |-> Raise("ValueError")]
    ELSE [roles |-> Append(roles, [name |-> name, options |-> options]),
          result |-> Ok(SnowflakeValue(Len(roles)))]

\* The most roles a builder is given.
MaxRoles == 2

\* What add_role is called with.
RoleNames == {Everyone, "Admins"}

RoleOptions ==
    [permissions : {UNDEFINED, PyInt(8)},
     color : {UNDEFINED, [t |-> "Color", n |-> 5]},
     colour : {UNDEFINED, [t |-> "Color", n |-> 5]},
     hoist : {UNDEFINED, PyBool(TRUE)},
     mentionable : {UNDEFINED, PyBool(FALSE)},
     position : {UNDEFINED, PyInt(1)}]

AddRole(name, options) ==
    /\ Len(builder.roles) < MaxRoles
    /\ LET outcome == add_role(builder.roles, name, options)
       IN  builder' = [roles |-> outcome.roles,
                       last |-> RoleCall(name, options, outcome.result)]
    /\ UNCHANGED mapVars
    /\ UNCHANGED setVars
    /\ UNCHANGED fcall

InitBuilder == NoMap /\ NoSet /\ NoCall

NextBuilder == \E name \in RoleNames, options \in RoleOptions : AddRole(name, options)

SpecBuilder == InitBuilder /\ [][NextBuilder]_vars

----------------------------------------------------------------------------
(* Claims about the entity factory, under SpecFactory.                      *)

\* The call in progress is deserialize_audit_log on a payload with entries.
AuditLogCall ==
    /\ fcall.op = "deserialize_audit_log"
    /\ Has(fcall.payload.items, "audit_log_entries")

\* The entry payloads of the call in progress.
LogEntries == fcall.payload.items["audit_log_entries"].items

\* The id entry i is kept under, and whether no later entry has that id.
EntryId(i) == snowflake_Snowflake(LogEntries[i].items["id"]).value

EntryKept(i) == \A k \in (i + 1)..Len(LogEntries) : EntryId(k) # EntryId(i)

\* Entry i as decoded.
DecodedEntry(i) == fcall.result.value.attrs["entries"].items[EntryId(i)].attrs

\* The change payloads of entry i, and its change j as decoded.
LogChanges(i) ==
    LET change_payloads == payload_get(LogEntries[i].items, "changes")
    IN  IF change_payloads = PyNone THEN <<>> ELSE change_payloads.items

DecodedChange(i, j) == DecodedEntry(i)["changes"].items[j].attrs

RemoveAt(seq, i) == SubSeq(seq, 1, i - 1) \o SubSeq(seq, i + 1, Len(seq))

\* The fields of entry i other than action_type and options decode, and so
\* does the rest of the log.
DecodesBut(i) ==
    /\ ~Failed(Build("AuditLogEntry",
                     SelectSeq(audit_log_entry_attributes(LogEntries[i].items),
                               LAMBDA f : f.name \notin {"action_type", "options"})))
    /\ ~Failed(deserialize_audit_log(
           [fcall.payload.items EXCEPT
               !["audit_log_entries"] = PyList(RemoveAt(LogEntries, i))]))

\* The log without change j of entry i decodes.
DecodesWithout(i, j) ==
    ~Failed(deserialize_audit_log(
        [fcall.payload.items EXCEPT
            !["audit_log_entries"] =
                PyList([LogEntries EXCEPT
                    ![i] = PyDict([LogEntries[i].items EXCEPT
                              !["changes"] = PyList(RemoveAt(LogChanges(i), j))])])]))

\* The action type of entry i is there and no member of AuditLogEventType.
UnknownAction(i) ==
    /\ Has(LogEntries[i].items, "action_type")
    /\ ~IsEventType(LogEntries[i].items["action_type"])

\* The action type of entry i is a member the event mapping leaves out.
UnmappedAction(i) ==
    /\ Has(LogEntries[i].items, "action_type")
    /\ IsEventType(LogEntries[i].items["action_type"])
    /\ \A name \in DOMAIN audit_log_event_mapping :
           AuditLogEventType[name] # LogEntries[i].items["action_type"].n

\* The options of entry i, as decoded, are its raw options inside an
\* UnrecognisedAuditLogEntryInfo, or None when it has none or null.
OptionsKeptRaw(i) ==
    LET options == payload_get(LogEntries[i].items, "options")
    IN  DecodedEntry(i)["options"] =
            IF options = PyNone
            THEN PyNone
            ELSE [t |-> "UnrecognisedAuditLogEntryInfo", payload |-> options]

\* C13: deserialize_audit_log never fails on an entry whose action_type is
\* no known AuditLogEventType: the entry's action_type is the raw number
\* and its options, when not null, are the raw options wrapped unchanged by
\* the default decoder; a known action_type the event mapping has no entry
\* for gets the same default decoder.
C13_UnknownActionTypeKeptRaw ==
    AuditLogCall =>
        \A i \in 1..Len(LogEntries) :
            /\ (UnknownAction(i) \/ UnmappedAction(i)) =>
                   /\ DecodesBut(i) => ~Failed(fcall.result)
                   /\ (~Failed(fcall.result) /\ EntryKept(i)) => OptionsKeptRaw(i)
            /\ (UnknownAction(i) /\ ~Failed(fcall.result) /\ EntryKept(i)) =>
                   DecodedEntry(i)["action_type"] = LogEntries[i].items["action_type"]
            /\ (UnmappedAction(i) /\ ~Failed(fcall.result) /\ EntryKept(i)) =>
                   /\ DecodedEntry(i)["action_type"].t = "AuditLogEventType"
                   /\ DecodedEntry(i)["action_type"].value
                          = LogEntries[i].items["action_type"].n

\* An entry with an action type no member has, and options, was decoded
\* next to an entry of a mapped type.
C13_Witness ==
    /\ AuditLogCall
    /\ ~Failed(fcall.result)
    /\ Len(LogEntries) = 2
    /\ EntryKept(1)
    /\ UnknownAction(1)
    /\ ~UnknownAction(2) /\ ~UnmappedAction(2)
    /\ DecodedEntry(1)["action_type"] = PyInt(1000)
    /\ DecodedEntry(1)["options"].t = "UnrecognisedAuditLogEntryInfo"
    /\ DecodedEntry(2)["options"].t = "MemberDisconnectEntryInfo"

\* The key of change j of entry i is there and no member of
\* AuditLogChangeKey.
UnknownKey(i, j) ==
    /\ Has(LogChanges(i)[j].items, "key")
    /\ ~IsChangeKey(LogChanges(i)[j].items["key"])

\* The key of change j of entry i is a member, and the name of its
\* converter ("None" when the converter table leaves the member out).
KnownKey(i, j) ==
    /\ Has(LogChanges(i)[j].items, "key")
    /\ IsChangeKey(LogChanges(i)[j].items["key"])

ConverterOf(i, j) ==
    LET name == CHOOSE n \in DOMAIN AuditLogChangeKey :
                    AuditLogChangeKey[n] = LogChanges(i)[j].items["key"].s
    IN  IF name \in DOMAIN audit_log_entry_converters
        THEN audit_log_entry_converters[name]
        ELSE "None"

\* C14: a change whose key is no recognised AuditLogChangeKey is never an
\* error: change.key is the raw key and new_value and old_value are the raw
\* payload values, unconverted; a recognised key with no converter in the
\* table passes both values through unconverted as well.
C14_UnknownChangeKeyPassesThrough ==
    AuditLogCall =>
        \A i \in 1..Len(LogEntries) : \A j \in 1..Len(LogChanges(i)) :
            LET change_payload == LogChanges(i)[j].items
                passes ==
                    /\ DecodesWithout(i, j) => ~Failed(fcall.result)
                    /\ (~Failed(fcall.result) /\ EntryKept(i)) =>
                           /\ DecodedChange(i, j)["new_value"]
                                  = payload_get(change_payload, "new_value")
                           /\ DecodedChange(i, j)["old_value"]
                                  = payload_get(change_payload, "old_value")
            IN  /\ UnknownKey(i, j) =>
                       /\ passes
                       /\ (~Failed(fcall.result) /\ EntryKept(i)) =>
                              DecodedChange(i, j)["key"] = change_payload["key"]
                /\ (KnownKey(i, j) /\ ConverterOf(i, j) = "None") =>
                       /\ passes
                       /\ (~Failed(fcall.result) /\ EntryKept(i)) =>
                              DecodedChange(i, j)["key"].t = "AuditLogChangeKey"

\* A change with a key no member has, and both values, was decoded.
C14_Witness ==
    /\ AuditLogCall
    /\ ~Failed(fcall.result)
    /\ Len(LogEntries) = 1
    /\ Len(LogChanges(1)) = 1
    /\ UnknownKey(1, 1)
    /\ DecodedChange(1, 1)["key"] = PyStr("$future")
    /\ DecodedChange(1, 1)["new_value"] = PyNumStr(7)
    /\ DecodedChange(1, 1)["old_value"] = PyInt(0)

\* What a side of a change is to come out as under a converter: None when
\* null or absent, else what the converter makes of it.
SideUnder(value_converter, change_payload, side) ==
    IF payload_get(change_payload, side) = PyNone
    THEN Ok(PyNone)
    ELSE Convert(value_converter, change_payload[side])

\* C15: for a change whose key has a converter, new_value and old_value
\* each go through that converter on their own: a side that is null or
\* absent stays None and the converter is not called on it, and what one
\* side converts to does not depend on the other side.
C15_BothSidesConvertedIndependently ==
    AuditLogCall =>
        \A i \in 1..Len(LogEntries) : \A j \in 1..Len(LogChanges(i)) :
            (KnownKey(i, j) /\ ConverterOf(i, j) # "None") =>
                LET change_payload == LogChanges(i)[j].items
                    new == SideUnder(ConverterOf(i, j), change_payload, "new_value")
                    old == SideUnder(ConverterOf(i, j), change_payload, "old_value")
                IN  /\ (DecodesWithout(i, j) /\ ~Failed(new) /\ ~Failed(old)) =>
                           ~Failed(fcall.result)
                    /\ (~Failed(fcall.result) /\ EntryKept(i)) =>
                           /\ DecodedChange(i, j)["new_value"] = new.value
                           /\ DecodedChange(i, j)["old_value"] = old.value
                           /\ \A v \in ChangeValues :
                                  LET r == deserialize_audit_log_change(
                                               WithKey(change_payload, "old_value", v))
                                  IN  ~Failed(r) =>
                                          r.value.attrs["new_value"]
                                              = DecodedChange(i, j)["new_value"]
                           /\ \A v \in ChangeValues :
                                  LET r == deserialize_audit_log_change(
                                               WithKey(change_payload, "new_value", v))
                                  IN  ~Failed(r) =>
                                          r.value.attrs["old_value"]
                                              = DecodedChange(i, j)["old_value"]

\* A change of max_uses from a number to nothing was decoded: the old side
\* went through the converter, the new side stayed None.
C15_Witness ==
    /\ AuditLogCall
    /\ ~Failed(fcall.result)
    /\ Len(LogEntries) = 1
    /\ Len(LogChanges(1)) = 1
    /\ KnownKey(1, 1)
    /\ ConverterOf(1, 1) = "_deserialize_max_uses"
    /\ ~Has(LogChanges(1)[1].items, "new_value")
    /\ payload_get(LogChanges(1)[1].items, "old_value") = PyInt(1)
    /\ DecodedChange(1, 1)["new_value"] = PyNone
    /\ DecodedChange(1, 1)["old_value"] = PyInt(1)

\* len(audit_log) and [*audit_log]: the number of entries the mapping holds
\* and its values as iteration meets them (hikari.models.audit_logs).
AuditLog_len(audit_log) == Len(audit_log.attrs["entries"].order)

AuditLog_iter(audit_log) ==
    LET entries == audit_log.attrs["entries"]
    IN  [k \in 1..Len(entries.order) |-> entries.items[entries.order[k]]]

\* Entry i of the payload decoded alone, and whether the ids of the payload's
\* entries differ from one another.
EntryAlone(i) == deserialize_audit_log_entry(LogEntries[i].items).value

DistinctEntryIds ==
    \A i, j \in 1..Len(LogEntries) : EntryId(i) = EntryId(j) => i = j

\* C24: a decoded audit log keeps its entries in a mapping keyed by the
\* Snowflake of each entry's id, iterated in the order of the payload's
\* audit_log_entries array; len(audit_log) is the number of entries of the
\* mapping and iterating the log yields the entries in that order. (Ids that
\* repeat share one key, at the place of the first.)
C24_EntriesKeptInPayloadOrder ==
    (AuditLogCall /\ ~Failed(fcall.result)) =>
        LET audit_log == fcall.result.value
            entries == audit_log.attrs["entries"]
            n == Len(LogEntries)
            First(k) == CHOOSE i \in 1..n :
                            /\ EntryId(i) = entries.order[k]
                            /\ \A j \in 1..(i - 1) : EntryId(j) # EntryId(i)
        IN  /\ \A k \in 1..Len(entries.order) : entries.order[k].t = "Snowflake"
            /\ {entries.order[k] : k \in 1..Len(entries.order)}
                   = {EntryId(i) : i \in 1..n}
            /\ DOMAIN entries.items = {EntryId(i) : i \in 1..n}
            /\ \A k, l \in 1..Len(entries.order) : k < l => First(k) < First(l)
            /\ AuditLog_len(audit_log) = Cardinality(DOMAIN entries.items)
            /\ \A k \in 1..Len(entries.order) :
                   AuditLog_iter(audit_log)[k] = entries.items[entries.order[k]]
            /\ DistinctEntryIds =>
                   /\ entries.order = [i \in 1..n |-> EntryId(i)]
                   /\ AuditLog_len(audit_log) = n
                   /\ AuditLog_iter(audit_log) = [i \in 1..n |-> EntryAlone(i)]

\* A log of two entries with different ids, the larger id first, was
\* decoded: iteration meets the entries as the payload lists them.
C24_Witness ==
    /\ AuditLogCall
    /\ ~Failed(fcall.result)
    /\ Len(LogEntries) = 2
    /\ EntryId(1).n > EntryId(2).n
    /\ AuditLog_len(fcall.result.value) = 2
    /\ AuditLog_iter(fcall.result.value) = <<EntryAlone(1), EntryAlone(2)>>

\* The call in progress is deserialize_channel on a payload whose type the
\* mapping has.
DispatchedBy(mapping) ==
    /\ fcall.op = "deserialize_channel"
    /\ Has(fcall.payload.items, "type")
    /\ IsKey(mapping, fcall.payload.items["type"])

\* C16: deserialize_channel called with a payload whose type is in neither
\* channel type mapping does not raise: the unknown type goes a default way.
C16_UnknownChannelTypeTolerated ==
    (/\ fcall.op = "deserialize_channel"
     /\ Has(fcall.payload.items, "type")
     /\ ~IsKey(guild_channel_type_mapping, fcall.payload.items["type"])
     /\ ~IsKey(dm_channel_type_mapping, fcall.payload.items["type"])) =>
        ~Failed(fcall.result)

\* C17: for every guild channel type deserialize_channel dispatches, a
\* guild_id argument becomes the channel's guild_id and the payload's own
\* guild_id is not read (absent or different, the outcome is the same);
\* with no argument the channel's guild_id is the payload's, as a
\* Snowflake; with neither the decode fails with a KeyError.
C17_GuildIdArgumentComesFirst ==
    DispatchedBy(guild_channel_type_mapping) =>
        LET payload == fcall.payload.items
            guild_id == fcall.guild_id
            r == fcall.result
        IN  /\ (guild_id # UNDEFINED /\ ~Failed(r)) =>
                   r.value.attrs["guild_id"] = guild_id
            /\ guild_id # UNDEFINED =>
                   \A g \in GuildIdValues :
                       deserialize_channel(WithKey(payload, "guild_id", g), guild_id) = r
            /\ (guild_id = UNDEFINED /\ Has(payload, "guild_id") /\ ~Failed(r)) =>
                   r.value.attrs["guild_id"]
                       = SnowflakeValue(payload["guild_id"].digits)
            /\ (guild_id = UNDEFINED /\ ~Has(payload, "guild_id")) =>
                   r.exc = "KeyError"

\* A guild text channel came with a guild_id of its own and was decoded for
\* another guild, given as the argument.
C17_Witness ==
    /\ DispatchedBy(guild_channel_type_mapping)
    /\ ~Failed(fcall.result)
    /\ fcall.guild_id = SnowflakeValue(3)
    /\ Has(fcall.payload.items, "guild_id")
    /\ fcall.payload.items["guild_id"] = PyNumStr(1)
    /\ fcall.result.value.t = "GuildTextChannel"
    /\ fcall.result.value.attrs["guild_id"] = SnowflakeValue(3)

\* C18: deserialize_invite_with_metadata maps max_age = 0 to None, the
\* "no expiry" marker, and every max_age = n > 0 to a duration of exactly n
\* seconds; 86400 gives one day.
C18_MaxAgeZeroIsNoExpiry ==
    (Returned("deserialize_invite_with_metadata") /\ GivenInt("max_age")) =>
        LET n == fcall.payload.items["max_age"].n
            max_age == fcall.result.value.attrs["max_age"]
        IN  /\ n = 0 => max_age = PyNone
            /\ n > 0 => /\ max_age.t = "timedelta"
                        /\ total_seconds(max_age) = n
                        /\ max_age.seconds \in 0..(SecondsPerDay - 1)
            /\ n = SecondsPerDay =>
                   max_age = [t |-> "timedelta", days |-> 1, seconds |-> 0]

\* An invite with max_age 0 was decoded, and it never expires.
C18_Witness ==
    /\ Returned("deserialize_invite_with_metadata")
    /\ GivenInt("max_age")
    /\ fcall.payload.items["max_age"] = PyInt(0)
    /\ fcall.result.value.attrs["max_age"] = PyNone

\* C19: deserialize_invite_with_metadata on a payload with max_uses = 0
\* yields max_uses None, the "no limit" marker, not the integer 0, as the
\* audit-log MAX_USES change converter does.
C19_MaxUsesZeroIsNoLimit ==
    (/\ Returned("deserialize_invite_with_metadata")
     /\ GivenInt("max_uses")
     /\ fcall.payload.items["max_uses"] = PyInt(0)) =>
        /\ fcall.result.value.attrs["max_uses"] = PyNone
        /\ fcall.result.value.attrs["max_uses"]
               = deserialize_max_uses(PyInt(0)).value

\* The fields of the embed the call in progress was given.
GivenFields ==
    IF fcall.payload.attrs["fields"] = PyNone
    THEN <<>>
    ELSE fcall.payload.attrs["fields"].items

\* x is None, or its text has no character that is not whitespace.
Blank(x) ==
    \/ x = PyNone
    \/ \A k \in 1..Len(str_chars(py_str(x).value)) :
           str_chars(py_str(x).value)[k] \in Whitespace

\* The field payloads of the received embed of the call in progress, when
\* it has a list of them that is not empty, each with a name and a value.
ReceivedFields ==
    LET fields == payload_get(fcall.payload.items, "fields")
    IN  IF /\ fields # PyNone
           /\ fields.t = "list"
           /\ \A k \in 1..Len(fields.items) :
                  /\ Has(fields.items[k].items, "name")
                  /\ Has(fields.items[k].items, "value")
        THEN fields.items
        ELSE <<>>

\* C20: serialize_embed raises, and returns no payload, whenever some field
\* of the embed has a name or a value that is None, empty or only
\* whitespace; the error names the index of the first such field in list
\* order, and its name before its value; an embed whose fields all have a
\* name and a value that are not blank never raises; deserialize_embed
\* makes no such check and takes blank names and values as they are.
C20_BlankEmbedFieldRejectedOnSerialize ==
    /\ fcall.op = "serialize_embed" =>
           LET offending ==
                   {k \in 1..Len(GivenFields) :
                        \/ Blank(GivenFields[k].attrs["name"])
                        \/ Blank(GivenFields[k].attrs["value"])}
               first == CHOOSE k \in offending : \A j \in offending : k <= j
           IN  IF offending = {}
               THEN /\ ~Failed(fcall.result)
                    /\ GivenFields # <<>> =>
                           Len(fcall.result.value.items[1].items["fields"].items)
                               = Len(GivenFields)
               ELSE /\ fcall.result.exc = "TypeError"
                    /\ fcall.result.value = PyNone
                    /\ fcall.result.message.index = first - 1
                    /\ fcall.result.message.attribute =
                           IF Blank(GivenFields[first].attrs["name"])
                           THEN "name"
                           ELSE "value"
    /\ (/\ fcall.op = "deserialize_embed"
        /\ ReceivedFields # <<>>
        /\ ~Failed(deserialize_embed(WithKey(fcall.payload.items, "fields", Absent)))) =>
           /\ ~Failed(fcall.result)
           /\ \A k \in 1..Len(ReceivedFields) :
                  LET field == fcall.result.value.attrs["fields"].items[k].attrs
                  IN  /\ field["name"] = ReceivedFields[k].items["name"]
                      /\ field["value"] = ReceivedFields[k].items["value"]

\* An embed of two fields, the second with a name and a value of
\* whitespace only, was refused for the value at index 1.
C20_Witness ==
    /\ fcall.op = "serialize_embed"
    /\ Len(GivenFields) = 2
    /\ ~Blank(GivenFields[1].attrs["name"])
    /\ ~Blank(GivenFields[1].attrs["value"])
    /\ ~Blank(GivenFields[2].attrs["name"])
    /\ GivenFields[2].attrs["value"] = PyText(<<" ", "\t">>)
    /\ fcall.result.exc = "TypeError"
    /\ fcall.result.message =
           [index |-> 1, attribute |-> "value", cannot_have |-> "only whitespace"]

----------------------------------------------------------------------------
(* Claims about the round trip of an embed, under SpecRoundTrip.            *)

\* The attributes of an embed that the round trip is to keep.
KeptAttributes == {"title", "description", "url", "color", "timestamp", "fields"}

\* The keys serialize_embed may write.
EmbedKeys ==
    {"title", "description", "url", "timestamp", "color", "footer", "image",
     "thumbnail", "author", "fields"}

\* The fields of a decoded embed.
FieldsOf(embed) ==
    IF embed.attrs["fields"] = PyNone THEN <<>> ELSE embed.attrs["fields"].items

\* Every field of embed has a name and a value that are text and not blank,
\* as the fields of an embed that Discord sends have.
ValidFields(embed) ==
    \A k \in 1..Len(FieldsOf(embed)) :
        \A a \in {"name", "value"} :
            /\ ~Blank(FieldsOf(embed)[k].attrs[a])
            /\ FieldsOf(embed)[k].attrs[a].t = "str"

\* p was decoded to embed, and embed encoded to result: with valid fields
\* nothing fails, a key that p lacks is not written, no fields are written
\* for an empty list, and what is written is what p spelled.
ReencodedAs(p, embed, result) ==
    ValidFields(embed) =>
        /\ ~Failed(result)
        /\ LET q == result.value.items[1].items
               given == payload_get(p, "fields")
           IN  /\ \A key \in EmbedKeys : ~Has(p, key) => ~Has(q, key)
               /\ (given = PyNone \/ given.items = <<>>) => ~Has(q, "fields")
               /\ \A key \in {"title", "description", "url"} :
                      payload_get(p, key) # PyNone =>
                          Has(q, key) /\ q[key] = p[key]
               /\ Has(p, "color") =>
                      Has(q, "color") /\ q["color"] = py_int(p["color"]).value
               /\ Has(p, "timestamp") =>
                      /\ Has(q, "timestamp")
                      /\ iso8601_datetime_string_to_datetime(q["timestamp"])
                             = iso8601_datetime_string_to_datetime(p["timestamp"])
               /\ (given # PyNone /\ given.items # <<>>) =>
                      /\ Has(q, "fields")
                      /\ Len(q["fields"].items) = Len(given.items)
                      /\ \A k \in 1..Len(given.items) :
                             LET was == given.items[k].items
                                 is == q["fields"].items[k].items
                             IN  /\ is["name"] = was["name"]
                                 /\ is["value"] = was["value"]
                                 /\ is["inline"] = IF Has(was, "inline")
                                                   THEN was["inline"]
                                                   ELSE PyBool(FALSE)

\* C21: an embed decoded from a payload whose fields are not blank encodes
\* without failure to a payload that keeps title, description, url, color,
\* timestamp and each field's name, value and inline in order, and that has
\* no key the first payload lacked and no fields for an empty list; decoding
\* that payload gives an embed equal to the first on these attributes.
C21_EmbedRoundTrip ==
    [][/\ (fcall.op = "deserialize_embed" /\ fcall'.op = "serialize_embed") =>
              ReencodedAs(fcall.payload.items, fcall.result.value, fcall'.result)
       /\ (/\ fcall.op = "serialize_embed"
           /\ fcall'.op = "deserialize_embed"
           /\ ValidFields(fcall.payload)) =>
              /\ ~Failed(fcall'.result)
              /\ \A a \in KeptAttributes :
                     fcall'.result.value.attrs[a] = fcall.payload.attrs[a]]_vars

\* An embed of one field, with a colour and a time and no title, came back
\* from its encoded payload: the payload in hand spells the inline flag that
\* the first payload left out, and the embed decoded from it has the field.
C21_Witness ==
    /\ Returned("deserialize_embed")
    /\ ~Has(fcall.payload.items, "title")
    /\ payload_get(fcall.payload.items, "fields")
           = PyList(<<PyDict([name |-> PyText(<<"a">>), value |-> PyText(<<"b">>),
                              inline |-> PyBool(FALSE)])>>)
    /\ payload_get(fcall.payload.items, "color") = PyInt(5)
    /\ payload_get(fcall.payload.items, "timestamp")
           = PyIsoStr("2020-05-01T12:00:00+00:00")
    /\ fcall.result.value.attrs["color"] = [t |-> "Color", n |-> 5]
    /\ fcall.result.value.attrs["title"] = PyNone
    /\ FieldsOf(fcall.result.value)
           = <<EmbedField(PyText(<<"a">>), PyText(<<"b">>), FALSE)>>

----------------------------------------------------------------------------
(* Claims about members and guilds, under SpecGuild.                        *)

\* The member decoded by the call in progress has, under attribute, the
\* omitted marker when the payload lacks key, None when it has null there,
\* and the time its text spells otherwise.
ThreeStates(key, attribute, is_time) ==
    LET payload == fcall.payload.items
        value == fcall.result.value.attrs[attribute]
        decoded(v) == IF is_time
                      THEN iso8601_datetime_string_to_datetime(v).value
                      ELSE v
    IN  /\ ~Has(payload, key) => value = UNDEFINED
        /\ (Has(payload, key) /\ payload[key] = PyNone) => value = PyNone
        /\ (Has(payload, key) /\ payload[key] # PyNone) =>
               /\ value = decoded(payload[key])
               /\ value \notin {UNDEFINED, PyNone}

\* C22: deserialize_member keeps the three states of nick, premium_since and
\* joined_at apart: a missing key gives UNDEFINED, null gives None, a value
\* gives the decoded value.
C22_MemberThreeStates ==
    Returned("deserialize_member") =>
        /\ ThreeStates("nick", "nickname", FALSE)
        /\ ThreeStates("premium_since", "premium_since", TRUE)
        /\ ThreeStates("joined_at", "joined_at", TRUE)

\* The same for nick and premium_since alone.
NickAndPremiumSinceThreeStates ==
    Returned("deserialize_member") =>
        /\ ThreeStates("nick", "nickname", FALSE)
        /\ ThreeStates("premium_since", "premium_since", TRUE)

\* joined_at: null and a missing key both give UNDEFINED.
JoinedAtTwoStates ==
    Returned("deserialize_member") =>
        LET payload == fcall.payload.items
            value == fcall.result.value.attrs["joined_at"]
        IN  IF payload_get(payload, "joined_at") = PyNone
            THEN value = UNDEFINED
            ELSE value = iso8601_datetime_string_to_datetime(payload["joined_at"]).value

\* The call in progress is deserialize_gateway_guild.
GuildCall == fcall.op = "deserialize_gateway_guild"

\* The voice state payloads of the guild payload in hand.
VoiceStatesGiven ==
    LET voice_states == payload_get(fcall.payload.items, "voice_states")
    IN  IF voice_states = PyNone THEN <<>> ELSE voice_states.items

\* The user ids that the member payloads of the guild payload in hand have.
MemberIdsGiven ==
    LET members == payload_get(fcall.payload.items, "members")
    IN  IF members = PyNone
        THEN {}
        ELSE {snowflake_Snowflake(members.items[i].items["user"].items["id"]).value :
                 i \in {j \in 1..Len(members.items) :
                            Has(members.items[j].items, "user")}}

\* C30: a gateway guild decoded from a payload with voice_states keeps each
\* voice state under its user_id, with the guild's id as guild_id and, as
\* member, the member kept in members under that user id; when members are
\* missing, or a voice state is of a user that members does not have, the
\* call fails and gives no guild.
C30_VoiceStatesJoinedToMembers ==
    (GuildCall /\ Has(fcall.payload.items, "voice_states")) =>
        /\ (\/ ~Has(fcall.payload.items, "members")
            \/ \E i \in 1..Len(VoiceStatesGiven) :
                   /\ Has(VoiceStatesGiven[i].items, "user_id")
                   /\ snowflake_Snowflake(VoiceStatesGiven[i].items["user_id"]).value
                          \notin MemberIdsGiven) =>
               /\ Failed(fcall.result)
               /\ fcall.result.value = PyNone
        /\ ~Failed(fcall.result) =>
               LET definition == fcall.result.value.attrs
                   voice_states == definition["voice_states"]
                   members == definition["members"]
               IN  /\ voice_states # PyNone
                   /\ members # PyNone
                   /\ DOMAIN voice_states.items
                          = {snowflake_Snowflake(VoiceStatesGiven[i].items["user_id"]).value :
                                i \in 1..Len(VoiceStatesGiven)}
                   /\ \A user_id \in DOMAIN voice_states.items :
                          LET voice_state == voice_states.items[user_id].attrs
                          IN  /\ voice_state["user_id"] = user_id
                              /\ voice_state["guild_id"] = definition["guild"].id
                              /\ user_id \in DOMAIN members.items
                              /\ voice_state["member"] = members.items[user_id]
                              /\ voice_state["member"].attrs["user"].id = user_id
                              /\ voice_state["member"].attrs["guild_id"]
                                     = definition["guild"].id

\* A guild with members 8 and 9, listed in that order, and the voice states
\* of 9 and 8 was decoded: each voice state has its own user's member.
C30_Witness ==
    /\ GuildCall
    /\ ~Failed(fcall.result)
    /\ Len(VoiceStatesGiven) = 2
    /\ fcall.result.value.attrs["members"].order = <<SnowflakeValue(8), SnowflakeValue(9)>>
    /\ fcall.result.value.attrs["voice_states"].order
           = <<SnowflakeValue(9), SnowflakeValue(8)>>
    /\ fcall.result.value.attrs["voice_states"].items[SnowflakeValue(9)].attrs["member"]
           = fcall.result.value.attrs["members"].items[SnowflakeValue(9)]

\* A guild whose only voice state is of user 9, with user 8 its only member,
\* was refused.
VoiceStateWithoutMemberRefused ==
    /\ GuildCall
    /\ Len(VoiceStatesGiven) = 1
    /\ MemberIdsGiven = {SnowflakeValue(8)}
    /\ payload_get(VoiceStatesGiven[1].items, "user_id") = PyNumStr(9)
    /\ Has(fcall.payload.items, "name")
    /\ fcall.result = Raise("KeyError")

\* A guild with voice states and no members key was refused by the assert.
VoiceStatesWithoutMembersRefused ==
    /\ GuildCall
    /\ Has(fcall.payload.items, "voice_states")
    /\ ~Has(fcall.payload.items, "members")
    /\ Has(fcall.payload.items, "name")
    /\ fcall.result = Raise("AssertionError")

----------------------------------------------------------------------------
(* Claims about messages, under SpecMessage.                                *)

\* C23: deserialize_message on a payload that lacks a required key raises
\* KeyError and returns no message, with no default in place of the key; a
\* payload that has every required key decodes, whichever optional keys it
\* lacks.
C23_RequiredMessageKeys ==
    fcall.op = "deserialize_message" =>
        IF \E key \in RequiredMessageKeys : ~Has(fcall.payload.items, key)
        THEN fcall.result = Raise("KeyError")
        ELSE /\ ~Failed(fcall.result)
             /\ fcall.result.value.t = "Message"

\* A message payload with every key but pinned, one of the last that are
\* read, was refused.
C23_Witness ==
    /\ fcall.op = "deserialize_message"
    /\ DOMAIN fcall.payload.items = DOMAIN FullMessagePayload \ {"pinned"}
    /\ fcall.result = Raise("KeyError")

\* A message payload with the required keys only was decoded.
MessageWithoutOptionalKeysDecoded ==
    /\ fcall.op = "deserialize_message"
    /\ DOMAIN fcall.payload.items = RequiredMessageKeys
    /\ ~Failed(fcall.result)
    /\ fcall.result.value.attrs["member"] = PyNone
    /\ fcall.result.value.attrs["reactions"] = PyList(<<>>)

----------------------------------------------------------------------------
(* Claims about the guild builder, under SpecBuilder.                       *)

\* C25: the first role of a guild builder has to be the default one: a
\* first add_role with another name fails and adds no role, a first add_role
\* with color, colour, hoist, mentionable or position fails, a later
\* add_role with the default role's name fails, and an add_role that fails
\* leaves the roles as they were.
C25_FirstRoleIsEveryone ==
    [][LET call == builder'.last
           first == builder.roles = <<>>
       IN  /\ (first /\ call.name # Everyone) =>
                  Failed(call.result) /\ builder'.roles = <<>>
           /\ (first /\ \E k \in Restricted : call.options[k] # UNDEFINED) =>
                  Failed(call.result)
           /\ (~first /\ call.name = Everyone) => Failed(call.result)
           /\ Failed(call.result) => builder'.roles = builder.roles
           /\ ~Failed(call.result) =>
                  /\ Len(builder'.roles) = Len(builder.roles) + 1
                  /\ builder'.roles[1].name = Everyone]_vars

\* A builder that holds the default role alone has just refused a role
\* named as the default one, after an add_role that it took.
C25_Witness ==
    /\ Len(builder.roles) = 1
    /\ builder.roles[1].name = Everyone
    /\ builder.last.name = Everyone
    /\ Failed(builder.last.result)
    /\ \A k \in DOMAIN builder.last.options : builder.last.options[k] = UNDEFINED

\* A new builder has just refused a first role of another name.
FirstRoleOfAnotherNameRefused ==
    /\ builder.roles = <<>>
    /\ builder.last.name = "Admins"
    /\ builder.last.result = Raise("ValueError")

====
